---- MODULE Spec2Model ----
(***************************************************************************)
(* Model of the storefront bot in src/bot.py: the DataStorage entity store *)
(* (catalog, orders, id counters, the JSON files it persists to), the      *)
(* AdminManager, and the aiogram conversation handlers that drive them.    *)
(*                                                                         *)
(* A dict keyed by entity id is a function whose DOMAIN is the set of      *)
(* keys; the dataclass field `id` always equals the key and is left out.   *)
(* Optional[int] = None is the value None (ids start at 1).  Prices are    *)
(* kept in hundredths (9.99 is 999).                                        *)
(***************************************************************************)
EXTENDS Integers, Sequences, FiniteSets, TLC

VARIABLES
    storage_db,     \* the DataStorage instance: collections and id counters
    files,          \* the persisted *.json files, one field per file
    admin_manager,  \* the AdminManager instance: the set `admins`
    fsm,            \* MemoryStorage: per user id, the FSM state and its data
    last,           \* history: the last operation, its argument and result
    pre,            \* history: storage_db as it was when `last` started
    pre_admins,     \* history: the admins as they were when `last` started
    issued,         \* history: highest id add_* ever returned, per type
    steps,          \* history: number of budgeted operations so far
    buttons,        \* the ids for which the chat holds an inline button
    checkout,       \* per user, the product selected when they last chose
                    \* a payment method and the orders created since
    tasks,          \* the handlers suspended at an await
    outbox          \* history: broadcast messages entered, and the sends
                    \* that reached a user, each with the entry it carried

vars == <<storage_db, files, admin_manager, fsm, last, pre, pre_admins, issued,
          steps, buttons, checkout, tasks, outbox>>

-----------------------------------------------------------------------------
(* Bounds of the model *)

\* ids that operations and buttons name, and the cap of the id counters
MaxId == 3
\* store operations per run of SpecStore
MaxOps == 4
\* button presses delivered in one behaviour of the workflow specifications
MaxPresses == 2
\* budgeted steps up to which a buyer's button presses are delivered
MaxBuyerPresses == 3
\* users registered in the store when a broadcast is explored
MaxRecipients == 10
\* recipients whose send fails in one broadcast
MaxUnreachable == 2
\* handlers that are suspended, or whose end is remembered, at the same time
MaxTasks == 2

-----------------------------------------------------------------------------
(* Program constants *)

None == 0
\* OWNER_ID; the model numbers users 1, 2, ...
YOUR_TELEGRAM_ID == 1
\* order of a city that was never placed
DefaultOrder == 999
\* number of cities create_test_data seeds
SeedCityCount == 21

SeedCityNames ==
    << "Kaliningrad", "Gurevsk", "Zelenogradsk", "Gvardeysk", "Sovetsk",
       "Polessk", "Baltiysk", "Svetlogorsk", "Gusev", "Chernyakhovsk",
       "Svetly", "Pionersky", "Bagrationovsk", "Yantarny", "Mamonovo",
       "Neman", "Krasnoznamensk", "Nesterov", "Znamensk", "Pravdinsk",
       "Primorsk" >>

-----------------------------------------------------------------------------
(* Dataclasses *)

City(name, order) == [name |-> name, order |-> order, is_active |-> TRUE]

Category(name, city_id) == [name |-> name, city_id |-> city_id, is_active |-> TRUE]

Product(name, description, price, category_id, city_id, photo_url) ==
    [name |-> name, description |-> description, price |-> price,
     category_id |-> category_id, city_id |-> city_id,
     photo_url |-> photo_url, is_active |-> TRUE]

\* an order that is born confirmed
Order_confirmed(user_id, product_id, product_name, price, payment_method, payment_proof) ==
    [user_id |-> user_id, product_id |-> product_id,
     product_name |-> product_name, price |-> price,
     payment_method |-> payment_method, payment_proof |-> payment_proof,
     status |-> "confirmed"]

Order(user_id, product_id, product_name, price, payment_method, payment_proof) ==
    [user_id |-> user_id, product_id |-> product_id,
     product_name |-> product_name, price |-> price,
     payment_method |-> payment_method, payment_proof |-> payment_proof,
     status |-> "pending"]

-----------------------------------------------------------------------------
(* Dict helpers *)

EmptyDict == [k \in {} |-> None]

DictPut(d, k, v) == [x \in (DOMAIN d) \cup {k} |-> IF x = k THEN v ELSE d[x]]

DictDel(d, k) == [x \in (DOMAIN d) \ {k} |-> d[x]]

Max(S) == CHOOSE x \in S : \A y \in S : y <= x

Min(S) == CHOOSE x \in S : \A y \in S : x <= y

-----------------------------------------------------------------------------
(* DataStorage.  A "world" w is [db |-> the instance, files |-> the disk];  *)
(* a method returns the world it leaves behind and, where it has one, its  *)
(* return value.                                                           *)

\* save_data(filename, data): the file takes the collection's content
save_data(w, coll) == [w EXCEPT !.files[coll] = w.db[coll]]

save_users(w) == [w EXCEPT !.files.users = w.db.users]

save_all(w) ==
    save_users(save_data(save_data(save_data(save_data(w,
        "products"), "categories"), "cities"), "orders"))

add_user(w, user_id) ==
    IF \E i \in 1..Len(w.db.users) : w.db.users[i] = user_id
    THEN w
    ELSE save_users([w EXCEPT !.db.users = Append(@, user_id)])

add_product(w, product) ==
    LET id == w.db.next_product_id
        w1 == [w EXCEPT !.db.products = DictPut(@, id, product),
                        !.db.next_product_id = @ + 1]
    IN  [w |-> save_data(w1, "products"), ret |-> id]

add_category(w, category) ==
    LET id == w.db.next_category_id
        w1 == [w EXCEPT !.db.categories = DictPut(@, id, category),
                        !.db.next_category_id = @ + 1]
    IN  [w |-> save_data(w1, "categories"), ret |-> id]

add_city(w, city) ==
    LET id == w.db.next_city_id
        w1 == [w EXCEPT !.db.cities = DictPut(@, id, city),
                        !.db.next_city_id = @ + 1]
    IN  [w |-> save_data(w1, "cities"), ret |-> id]

\* add_order that stores the order as confirmed
add_order_as_confirmed(w, order) ==
    LET id == w.db.next_order_id
        w1 == [w EXCEPT !.db.orders =
                            DictPut(@, id, [order EXCEPT !.status = "confirmed"]),
                        !.db.next_order_id = @ + 1]
    IN  [w |-> save_data(w1, "orders"), ret |-> id]

add_order(w, order) ==
    LET id == w.db.next_order_id
        w1 == [w EXCEPT !.db.orders = DictPut(@, id, order),
                        !.db.next_order_id = @ + 1]
    IN  [w |-> save_data(w1, "orders"), ret |-> id]

update_city_order(w, city_id, order) ==
    IF city_id \in DOMAIN w.db.cities
    THEN [w |-> save_data([w EXCEPT !.db.cities[city_id].order = order], "cities"),
          ret |-> TRUE]
    ELSE [w |-> w, ret |-> FALSE]

\* ids that are no city are skipped; the except branch needs a failing write
bulk_update_city_orders(w, order_mapping) ==
    [w |-> save_data([w EXCEPT !.db.cities =
                        [c \in DOMAIN @ |->
                            IF c \in DOMAIN order_mapping
                            THEN [@[c] EXCEPT !.order = order_mapping[c]]
                            ELSE @[c]]], "cities"),
     ret |-> TRUE]

\* a delete that also drops the orders placed for the product
delete_product_with_orders(w, product_id) ==
    IF product_id \in DOMAIN w.db.products
    THEN [w |-> save_data([w EXCEPT
                    !.db.products = DictDel(@, product_id),
                    !.db.orders = [o \in {x \in DOMAIN @ : @[x].product_id # product_id}
                                      |-> @[o]]],
                          "products"),
          ret |-> TRUE]
    ELSE [w |-> w, ret |-> FALSE]

delete_product(w, product_id) ==
    IF product_id \in DOMAIN w.db.products
    THEN [w |-> save_data([w EXCEPT !.db.products = DictDel(@, product_id)],
                          "products"),
          ret |-> TRUE]
    ELSE [w |-> w, ret |-> FALSE]

\* for prod_id in products_to_delete: self.delete_product(prod_id)
RECURSIVE delete_products_loop(_, _)
delete_products_loop(w, products_to_delete) ==
    IF products_to_delete = {}
    THEN w
    ELSE LET prod_id == Min(products_to_delete)
         IN  delete_products_loop(delete_product(w, prod_id).w,
                                  products_to_delete \ {prod_id})

\* mutant: the category goes, its products stay
delete_category_keeps_products(w, category_id) ==
    IF category_id \in DOMAIN w.db.categories
    THEN [w |-> save_data([w EXCEPT !.db.categories = DictDel(@, category_id)],
                          "categories"),
          ret |-> TRUE]
    ELSE [w |-> w, ret |-> FALSE]

\* mutant: the products to delete are picked by their own id
delete_category_by_product_id(w, category_id) ==
    IF category_id \in DOMAIN w.db.categories
    THEN LET w1 == save_data([w EXCEPT !.db.categories = DictDel(@, category_id)],
                             "categories")
             products_to_delete ==
                 {prod_id \in DOMAIN w1.db.products : prod_id = category_id}
         IN  [w |-> delete_products_loop(w1, products_to_delete), ret |-> TRUE]
    ELSE [w |-> w, ret |-> FALSE]

delete_category(w, category_id) ==
    IF category_id \in DOMAIN w.db.categories
    THEN LET w1 == save_data([w EXCEPT !.db.categories = DictDel(@, category_id)],
                             "categories")
             products_to_delete ==
                 {prod_id \in DOMAIN w1.db.products :
                      w1.db.products[prod_id].category_id = category_id}
         IN  [w |-> delete_products_loop(w1, products_to_delete), ret |-> TRUE]
    ELSE [w |-> w, ret |-> FALSE]

\* for cat_id in categories_to_delete: self.delete_category(cat_id)
RECURSIVE delete_categories_loop(_, _)
delete_categories_loop(w, categories_to_delete) ==
    IF categories_to_delete = {}
    THEN w
    ELSE LET cat_id == Min(categories_to_delete)
         IN  delete_categories_loop(delete_category(w, cat_id).w,
                                    categories_to_delete \ {cat_id})

\* mutant: every category is cascaded, whatever its city
delete_city_all_categories(w, city_id) ==
    IF city_id \in DOMAIN w.db.cities
    THEN LET w1 == save_data([w EXCEPT !.db.cities = DictDel(@, city_id)],
                             "cities")
         IN  [w |-> delete_categories_loop(w1, DOMAIN w1.db.categories),
              ret |-> TRUE]
    ELSE [w |-> w, ret |-> FALSE]

\* mutant: the cascade runs although the city is not there
delete_city_cascade_unchecked(w, city_id) ==
    LET present == city_id \in DOMAIN w.db.cities
        w1 == IF present
              THEN save_data([w EXCEPT !.db.cities = DictDel(@, city_id)], "cities")
              ELSE w
        categories_to_delete ==
            {cat_id \in DOMAIN w1.db.categories :
                 w1.db.categories[cat_id].city_id = city_id}
    IN  [w |-> delete_categories_loop(w1, categories_to_delete), ret |-> present]

\* delete_city that returns after removing the city, the cascade left to a
\* later step
delete_city_cascade_suspended(w, city_id) ==
    IF city_id \in DOMAIN w.db.cities
    THEN [w |-> save_data([w EXCEPT !.db.cities = DictDel(@, city_id)], "cities"),
          ret |-> TRUE]
    ELSE [w |-> w, ret |-> FALSE]

delete_city(w, city_id) ==
    IF city_id \in DOMAIN w.db.cities
    THEN LET w1 == save_data([w EXCEPT !.db.cities = DictDel(@, city_id)],
                             "cities")
             categories_to_delete ==
                 {cat_id \in DOMAIN w1.db.categories :
                      w1.db.categories[cat_id].city_id = city_id}
         IN  [w |-> delete_categories_loop(w1, categories_to_delete), ret |-> TRUE]
    ELSE [w |-> w, ret |-> FALSE]

\* the 21 cities, two categories of city 1 and one product in each
create_test_data(w) ==
    LET cities == [x \in (DOMAIN w.db.cities) \cup (1..SeedCityCount) |->
                      IF x \in 1..SeedCityCount
                      THEN City(SeedCityNames[x], x)
                      ELSE w.db.cities[x]]
        categories == DictPut(DictPut(w.db.categories,
                          1, Category("Electronics", 1)),
                          2, Category("Clothes", 1))
        products == DictPut(DictPut(w.db.products,
                          1, Product("iPhone 15 Pro", "d1", 9999999, 1, None, None)),
                          2, Product("T-shirt Premium", "d2", 299999, 2, None, None))
    IN  save_all([w EXCEPT !.db.cities = cities,
                           !.db.categories = categories,
                           !.db.products = products])

\* DataStorage.__init__: load the files, recompute the counters, seed
DataStorage_init(disk) ==
    LET db == [products   |-> disk.products,
               categories |-> disk.categories,
               cities     |-> disk.cities,
               orders     |-> disk.orders,
               users      |-> disk.users,
               next_product_id  |-> Max((DOMAIN disk.products) \cup {0}) + 1,
               next_category_id |-> Max((DOMAIN disk.categories) \cup {0}) + 1,
               next_city_id     |-> Max((DOMAIN disk.cities) \cup {0}) + 1,
               next_order_id    |-> Max((DOMAIN disk.orders) \cup {0}) + 1]
        w == [db |-> db, files |-> disk]
    IN  IF DOMAIN db.cities = {} THEN create_test_data(w) ELSE w

-----------------------------------------------------------------------------
(* AdminManager *)

\* AdminManager.__init__: load the set, make sure the owner is in it
\* the set __init__ would be left with if it only loaded admins.json
AdminManager_init_as_loaded(persisted_admins) == persisted_admins

\* `if YOUR_TELEGRAM_ID and YOUR_TELEGRAM_ID not in self.admins: add, save`
AdminManager_init(persisted_admins) ==
    IF YOUR_TELEGRAM_ID # 0 /\ YOUR_TELEGRAM_ID \notin persisted_admins
    THEN persisted_admins \cup {YOUR_TELEGRAM_ID}
    ELSE persisted_admins

\* add_admin without the test of the requester
add_admin_unchecked(admins, user_id, requester_id) ==
    [admins |-> admins \cup {user_id}, ret |-> TRUE]

\* every change is saved to admins.json before the call returns
add_admin(admins, user_id, requester_id) ==
    IF requester_id \notin admins
    THEN [admins |-> admins, ret |-> FALSE]
    ELSE [admins |-> admins \cup {user_id}, ret |-> TRUE]

\* remove_admin without the test for self-removal
remove_admin_allows_self(admins, user_id, requester_id) ==
    IF requester_id \notin admins
    THEN [admins |-> admins, ret |-> FALSE]
    ELSE IF user_id \in admins
    THEN [admins |-> admins \ {user_id}, ret |-> TRUE]
    ELSE [admins |-> admins, ret |-> FALSE]

\* remove_admin without the test of the requester
remove_admin_by_anyone(admins, user_id, requester_id) ==
    IF user_id = requester_id
    THEN [admins |-> admins, ret |-> FALSE]
    ELSE IF user_id \in admins
    THEN [admins |-> admins \ {user_id}, ret |-> TRUE]
    ELSE [admins |-> admins, ret |-> FALSE]

remove_admin(admins, user_id, requester_id) ==
    IF requester_id \notin admins
    THEN [admins |-> admins, ret |-> FALSE]
    ELSE IF user_id = requester_id
    THEN [admins |-> admins, ret |-> FALSE]
    ELSE IF user_id \in admins
    THEN [admins |-> admins \ {user_id}, ret |-> TRUE]
    ELSE [admins |-> admins, ret |-> FALSE]

is_admin(admins, user_id) == user_id \in admins

-----------------------------------------------------------------------------
(* Persisted states the process can start from *)

\* first run: ensure_files_exist creates empty files
FirstRunFiles ==
    [products |-> EmptyDict, categories |-> EmptyDict, cities |-> EmptyDict,
     orders |-> EmptyDict, users |-> << >>]

\* an earlier run seeded the catalog, cities 2..21 were deleted since, and
\* user 2 registered and ordered product 1
SmallCatalogFiles ==
    LET seeded == create_test_data([db |-> DataStorage_init(FirstRunFiles).db,
                                    files |-> FirstRunFiles]).db
    IN  [products   |-> seeded.products,
         categories |-> seeded.categories,
         cities     |-> [x \in {1} |-> seeded.cities[x]],
         orders     |-> [x \in {1} |->
                            Order(2, 1, seeded.products[1].name,
                                  seeded.products[1].price, "card", "photo")],
         users      |-> << 2 >>]

PersistedFiles == {FirstRunFiles, SmallCatalogFiles}

\* MemoryStorage starts empty: no state, no data, for every user
Users == {1, 2}

IdleFsm == [u \in Users |-> [state |-> "idle", data |-> EmptyDict]]

NoReport == [success |-> 0, failed |-> 0]

\* handlers that may be suspended at the same time
TaskIds == 1..MaxTasks

\* a task: the handler, its user, the await it is suspended at (pc), its
\* argument, the position of its loop, its local counters, the users it
\* tried to reach (sent) and the number of users registered when it began
NoTask ==
    [op |-> "none", user |-> 0, pc |-> "none", arg |-> 0, i |-> 0,
     success |-> 0, failed |-> 0, sent |-> << >>, registered |-> 0]

NoIssue == [city |-> 0, category |-> 0, product |-> 0, order |-> 0]

World == [db |-> storage_db, files |-> files]

\* the keyboards of the *_start and *_confirm handlers hold one button per
\* city, category or product in the store (lines 1278-1338, 1365-1395,
\* 1435-1492, 1519-1566, 1695-1790, 1836-1918); rendering them changes
\* nothing else, and a rendered button stays in the chat
Rendered(db) ==
    [city |-> DOMAIN db.cities, category |-> DOMAIN db.categories,
     product |-> DOMAIN db.products]

InitFrom(disks) ==
    \E disk \in disks :
        LET w == DataStorage_init(disk)
        IN  /\ storage_db = w.db
            /\ files = w.files
            /\ admin_manager = AdminManager_init({})
            /\ fsm = IdleFsm
            /\ last = [op |-> "init", user |-> 0, arg |-> 0, ok |-> TRUE, ret |-> 0,
                        reply |-> "", listed |-> << >>, input |-> << >>,
                        mapping |-> EmptyDict, attempted |-> << >>,
                        delivered |-> {}, report |-> NoReport]
            /\ pre = w.db
            /\ pre_admins = {}
            /\ issued = NoIssue
            /\ steps = 0
            /\ buttons = Rendered(w.db)
            /\ checkout = [u \in Users |-> [product |-> None, orders |-> 0]]
            /\ tasks = [t \in TaskIds |-> NoTask]
            /\ outbox = [entries |-> 0, log |-> << >>]

Init == InitFrom(PersistedFiles)

-----------------------------------------------------------------------------
(* History bookkeeping shared by all actions *)

\* reply: what the handler answered; listed: the ids its reply lists;
\* input: the comma-separated parts of the message text it was given;
\* mapping: the dict a store operation was called with; attempted: the
\* users a message was sent to, in order; delivered: those it reached;
\* report: the counts of the broadcast's final report
Event(op, user, arg, ok, ret, reply, input) ==
    [op |-> op, user |-> user, arg |-> arg, ok |-> ok, ret |-> ret,
     reply |-> reply, listed |-> << >>, input |-> input,
     mapping |-> EmptyDict, attempted |-> << >>, delivered |-> {},
     report |-> NoReport]

Call(op, user, arg, ok, ret) == Event(op, user, arg, ok, ret, "", << >>)

\* the world an operation leaves behind becomes the state
Commit(w, call) ==
    /\ storage_db' = w.db
    /\ files' = w.files
    /\ last' = call
    /\ pre' = storage_db
    /\ pre_admins' = admin_manager

Issue(kind, id) == issued' = [issued EXCEPT ![kind] = Max({@, id})]

Budget(max) ==
    /\ steps < max
    /\ steps' = steps + 1

-----------------------------------------------------------------------------
(* The store's operations called directly (specification SpecStore) *)

StoreAddCity ==
    /\ Budget(MaxOps)
    /\ storage_db.next_city_id <= MaxId
    /\ LET r == add_city(World, City("Riverton", DefaultOrder))
       IN  /\ Commit(r.w, Call("add_city", 0, 0, TRUE, r.ret))
           /\ Issue("city", r.ret)
    /\ UNCHANGED <<admin_manager, fsm, buttons, checkout, tasks, outbox>>

StoreAddCategory ==
    \E city_id \in 1..MaxId :
        /\ Budget(MaxOps)
        /\ storage_db.next_category_id <= MaxId
        /\ LET r == add_category(World, Category("Tools", city_id))
           IN  /\ Commit(r.w, Call("add_category", 0, city_id, TRUE, r.ret))
               /\ Issue("category", r.ret)
        /\ UNCHANGED <<admin_manager, fsm, buttons, checkout, tasks, outbox>>

\* a product goes under a category or directly under a city
StoreAddProduct ==
    \E id \in 1..MaxId, direct \in BOOLEAN :
        /\ Budget(MaxOps)
        /\ storage_db.next_product_id <= MaxId
        /\ LET product == IF direct
                          THEN Product("Hammer", "Steel hammer", 999, None, id, None)
                          ELSE Product("Hammer", "Steel hammer", 999, id, None, None)
               r == add_product(World, product)
           IN  /\ Commit(r.w, Call("add_product", 0, id, TRUE, r.ret))
               /\ Issue("product", r.ret)
        /\ UNCHANGED <<admin_manager, fsm, buttons, checkout, tasks, outbox>>

\* an order is built from a product in the store, as receive_payment_proof does
StoreAddOrder ==
    \E product_id \in DOMAIN storage_db.products :
        /\ Budget(MaxOps)
        /\ storage_db.next_order_id <= MaxId
        /\ LET product == storage_db.products[product_id]
               r == add_order(World, Order(2, product_id, product.name,
                                           product.price, "card", "photo"))
           IN  /\ Commit(r.w, Call("add_order", 2, product_id, TRUE, r.ret))
               /\ Issue("order", r.ret)
        /\ UNCHANGED <<admin_manager, fsm, buttons, checkout, tasks, outbox>>

StoreDeleteCity ==
    \E city_id \in 1..MaxId :
        /\ Budget(MaxOps)
        /\ LET r == delete_city(World, city_id)
           IN  Commit(r.w, Call("delete_city", 0, city_id, r.ret, 0))
        /\ UNCHANGED <<admin_manager, fsm, issued, buttons, checkout, tasks, outbox>>

StoreDeleteCategory ==
    \E category_id \in 1..MaxId :
        /\ Budget(MaxOps)
        /\ LET r == delete_category(World, category_id)
           IN  Commit(r.w, Call("delete_category", 0, category_id, r.ret, 0))
        /\ UNCHANGED <<admin_manager, fsm, issued, buttons, checkout, tasks, outbox>>

StoreDeleteProduct ==
    \E product_id \in 1..MaxId :
        /\ Budget(MaxOps)
        /\ LET r == delete_product(World, product_id)
           IN  Commit(r.w, Call("delete_product", 0, product_id, r.ret, 0))
        /\ UNCHANGED <<admin_manager, fsm, issued, buttons, checkout, tasks, outbox>>

\* the process stops and starts again: lifespan builds a new DataStorage,
\* AdminManager and MemoryStorage from what is on disk
Restart ==
    /\ Budget(MaxOps)
    /\ Commit(DataStorage_init(files), Call("restart", 0, 0, TRUE, 0))
    /\ admin_manager' = AdminManager_init(admin_manager)
    /\ fsm' = IdleFsm
    /\ UNCHANGED <<issued, buttons, checkout, tasks, outbox>>

NextStore ==
    \/ StoreAddCity
    \/ StoreAddCategory
    \/ StoreAddProduct
    \/ StoreAddOrder
    \/ StoreDeleteCity
    \/ StoreDeleteCategory
    \/ StoreDeleteProduct
    \/ Restart

SpecStore == Init /\ [][NextStore]_vars

-----------------------------------------------------------------------------
(* The store's reorder operations called directly (specification           *)
(* SpecCityOrder)                                                          *)

\* the order_mapping dicts a caller may pass: city ids, known or not, to
\* new order values
OrderMappings ==
    UNION {[ids -> 1..2] :
              ids \in {x \in SUBSET (1..(MaxId + 1)) : Cardinality(x) \in 1..2}}

StoreBulkUpdateCityOrders ==
    \E order_mapping \in OrderMappings :
        /\ Budget(MaxOps)
        /\ LET r == bulk_update_city_orders(World, order_mapping)
           IN  Commit(r.w, [Call("bulk_update_city_orders", 0, 0, r.ret, 0)
                               EXCEPT !.mapping = order_mapping])
        /\ UNCHANGED <<admin_manager, fsm, issued, buttons, checkout, tasks, outbox>>

StoreUpdateCityOrder ==
    \E city_id \in 1..(MaxId + 1), order \in 1..2 :
        /\ Budget(MaxOps)
        /\ LET r == update_city_order(World, city_id, order)
           IN  Commit(r.w, Call("update_city_order", 0, city_id, r.ret, order))
        /\ UNCHANGED <<admin_manager, fsm, issued, buttons, checkout, tasks, outbox>>

NextCityOrder ==
    \/ StoreBulkUpdateCityOrders
    \/ StoreUpdateCityOrder
    \/ StoreAddCity
    \/ StoreDeleteCity
    \/ Restart

SpecCityOrder == Init /\ [][NextCityOrder]_vars

-----------------------------------------------------------------------------
(* Messages and the text functions the handlers apply to them *)

\* an incoming message: text is message.text (has_text FALSE when it is
\* None), parts is what text.split(',') gives, photo/document tell whether
\* message.photo / message.document is set
TextMessage(text) ==
    [has_text |-> TRUE, text |-> text, parts |-> << text >>,
     photo |-> FALSE, document |-> FALSE]

ListMessage(parts) ==
    [has_text |-> TRUE, text |-> "(list)", parts |-> parts,
     photo |-> FALSE, document |-> FALSE]

PhotoMessage ==
    [has_text |-> FALSE, text |-> "", parts |-> << >>,
     photo |-> TRUE, document |-> FALSE]

DocumentMessage ==
    [has_text |-> FALSE, text |-> "", parts |-> << >>,
     photo |-> FALSE, document |-> TRUE]

\* text.strip() for the texts of the model
strip(text) ==
    CASE text = " " -> ""
      [] text = " Saw " -> "Saw"
      [] OTHER -> text

\* len(text) for the stripped texts of the model
len(text) ==
    CASE text = "" -> 0
      [] text \in {"x", "0", "1", "2", "3", "5"} -> 1
      [] text \in {"99", "-5"} -> 2
      [] text \in {"abc", "net", "Saw", "nan"} -> 3
      [] text = "9.99" -> 4
      [] text = "Tools" -> 5
      [] text = "Hammer" -> 6
      [] text \in {"Riverton", "Hand saw"} -> 8
      [] text = "Steel hammer" -> 12
      [] text = "(list)" -> 6

\* len(text.strip())
StrippedLen(text) == len(strip(text))

\* the float that float("nan") gives
NaN == -1000000

\* x <= y on floats: every comparison with NaN is False
FloatLe(x, y) == x # NaN /\ y # NaN /\ x <= y

\* float(text): the value in hundredths, or ValueError
float(text) ==
    CASE text = "9.99" -> [ok |-> TRUE, value |-> 999]
      [] text = "nan" -> [ok |-> TRUE, value |-> NaN]
      [] text = "5" -> [ok |-> TRUE, value |-> 500]
      [] text = "0" -> [ok |-> TRUE, value |-> 0]
      [] text = "1" -> [ok |-> TRUE, value |-> 100]
      [] text = "2" -> [ok |-> TRUE, value |-> 200]
      [] text = "3" -> [ok |-> TRUE, value |-> 300]
      [] text = "99" -> [ok |-> TRUE, value |-> 9900]
      [] text = "-5" -> [ok |-> TRUE, value |-> -500]
      [] OTHER -> [ok |-> FALSE, value |-> 0]

\* int(text), or ValueError
int(text) ==
    CASE text = "0" -> [ok |-> TRUE, value |-> 0]
      [] text = "1" -> [ok |-> TRUE, value |-> 1]
      [] text = "2" -> [ok |-> TRUE, value |-> 2]
      [] text = "3" -> [ok |-> TRUE, value |-> 3]
      [] text = "5" -> [ok |-> TRUE, value |-> 5]
      [] text = "99" -> [ok |-> TRUE, value |-> 99]
      [] text = "-5" -> [ok |-> TRUE, value |-> -5]
      [] OTHER -> [ok |-> FALSE, value |-> 0]

\* [x.strip() for x in text.split(',') if x.strip()]
RECURSIVE StripParts(_)
StripParts(parts) ==
    IF parts = << >>
    THEN << >>
    ELSE IF strip(Head(parts)) = ""
         THEN StripParts(Tail(parts))
         ELSE << strip(Head(parts)) >> \o StripParts(Tail(parts))

\* message.text.lower() != 'net' (the sentinel that skips the photo)
IsNoSentinel(text) == text = "net"

-----------------------------------------------------------------------------
(* FSMContext *)

StateOf(u) == fsm[u].state

DataOf(u) == fsm[u].data

set_state(f, u, state) == [f EXCEPT ![u].state = state]

update_data(f, u, key, value) == [f EXCEPT ![u].data = DictPut(@, key, value)]

clear(f, u) == [f EXCEPT ![u] = [state |-> "idle", data |-> EmptyDict]]

\* user_data.get(key, default)
get(data, key, default) == IF key \in DOMAIN data THEN data[key] ELSE default

-----------------------------------------------------------------------------
(* Handlers.  A handler gives its outcome: the world and the FSM storage   *)
(* it leaves, the reply it sent ("none" when it returned silently,         *)
(* "exception" when an exception left it) and the id it created, if any.   *)

Out(w, f, reply, ret) ==
    [w |-> w, fsm |-> f, reply |-> reply, ret |-> ret, listed |-> << >>,
     admins |-> admin_manager, attempted |-> << >>, delivered |-> {},
     report |-> NoReport]

\* `if not admin_manager.is_admin(...): return` of a callback handler
Ignored == Out(World, fsm, "none", 0)

\* a message handler that returns without `await state.clear()`
IgnoredAndKept(u) == Out(World, fsm, "none", 0)

\* `if not is_admin: await state.clear(); return` of a message handler
IgnoredAndCleared(u) == Out(World, clear(fsm, u), "none", 0)

Admin(u) == is_admin(admin_manager, u)

\* ids returned by add_* in a step that took the counters from db0 to db1
IssuedAfter(db0, db1) ==
    [city     |-> IF db1.next_city_id > db0.next_city_id
                  THEN Max({issued.city, db1.next_city_id - 1}) ELSE issued.city,
     category |-> IF db1.next_category_id > db0.next_category_id
                  THEN Max({issued.category, db1.next_category_id - 1})
                  ELSE issued.category,
     product  |-> IF db1.next_product_id > db0.next_product_id
                  THEN Max({issued.product, db1.next_product_id - 1})
                  ELSE issued.product,
     order    |-> IF db1.next_order_id > db0.next_order_id
                  THEN Max({issued.order, db1.next_order_id - 1}) ELSE issued.order]

\* the sends of one broadcast that reached their user, in order, each with
\* the number of the entered message it carried
Stamped(entry, attempted, delivered) ==
    LET reached == SelectSeq(attempted, LAMBDA user : user \in delivered)
    IN  [k \in 1..Len(reached) |-> [entry |-> entry, to |-> reached[k]]]

\* one update delivered to the dispatcher and handled to the end
Handle(op, u, arg, input, o) ==
    /\ Commit(o.w, [Event(op, u, arg, o.reply # "exception", o.ret, o.reply, input)
                        EXCEPT !.listed = o.listed, !.attempted = o.attempted,
                               !.delivered = o.delivered, !.report = o.report])
    /\ fsm' = o.fsm
    /\ issued' = IssuedAfter(storage_db, o.w.db)
    /\ buttons' = [k \in DOMAIN buttons |-> buttons[k] \cup Rendered(o.w.db)[k]]
    /\ checkout' =
           IF op = "select_payment_method"
           THEN [checkout EXCEPT
                    ![u] = [product |-> get(fsm[u].data, "selected_product_id", None),
                            orders |-> 0]]
           ELSE IF o.w.db.next_order_id > storage_db.next_order_id
           THEN [checkout EXCEPT ![u].orders = @ + 1]
           ELSE checkout
    /\ outbox' =
           IF op = "admin_broadcast_send" /\ o.reply = "confirm"
           THEN [outbox EXCEPT !.entries = @ + 1]
           ELSE IF op = "confirm_broadcast"
           THEN [outbox EXCEPT !.log = @ \o Stamped(arg, o.attempted, o.delivered)]
           ELSE outbox
    /\ admin_manager' = o.admins

\* the id counters stay within the explored range
WithinIds(o) ==
    /\ o.w.db.next_city_id <= MaxId + 1
    /\ o.w.db.next_category_id <= MaxId + 1
    /\ o.w.db.next_product_id <= MaxId + 1

(* ---- city add ---- *)

admin_add_city_start(u) ==
    IF ~Admin(u) THEN Ignored
    ELSE Out(World, set_state(fsm, u, "waiting_for_city_name"), "prompt", 0)

admin_add_city_finish(u, message) ==
    IF ~Admin(u) THEN IgnoredAndCleared(u)
    ELSE IF ~message.has_text \/ StrippedLen(message.text) < 2
    THEN Out(World, fsm, "too_short", 0)
    ELSE LET r == add_city(World, City(strip(message.text), DefaultOrder))
         IN  Out(r.w, clear(fsm, u), "added", r.ret)

(* ---- city delete ---- *)

\* the handler without its is_admin check
admin_delete_city_finish_ungated(u, city_id) ==
    LET r == delete_city(World, city_id)
    IN  Out(r.w, fsm, IF r.ret THEN "deleted" ELSE "failed", 0)

admin_delete_city_finish(u, city_id) ==
    IF ~Admin(u) THEN Ignored
    ELSE IF city_id \notin DOMAIN storage_db.cities
    THEN Out(World, fsm, "not_found", 0)
    ELSE LET r == delete_city(World, city_id)
         IN  Out(r.w, fsm, IF r.ret THEN "deleted" ELSE "failed", 0)

(* ---- category add ---- *)

admin_add_category_city(u, city_id) ==
    IF ~Admin(u) THEN Ignored
    ELSE Out(World,
             set_state(update_data(fsm, u, "category_city_id", city_id),
                       u, "waiting_for_category_name"),
             "prompt", 0)

admin_add_category_finish(u, message) ==
    IF ~Admin(u) THEN IgnoredAndCleared(u)
    ELSE LET city_id == get(DataOf(u), "category_city_id", None)
         IN  IF ~message.has_text \/ StrippedLen(message.text) < 2
             THEN Out(World, fsm, "too_short", 0)
             ELSE LET r == add_category(World, Category(strip(message.text), city_id))
                  IN  Out(r.w, clear(fsm, u), "added", r.ret)

(* ---- category delete ---- *)

admin_delete_category_finish(u, category_id) ==
    IF ~Admin(u) THEN Ignored
    ELSE IF category_id \notin DOMAIN storage_db.categories
    THEN Out(World, fsm, "not_found", 0)
    ELSE LET r == delete_category(World, category_id)
         IN  Out(r.w, fsm, IF r.ret THEN "deleted" ELSE "failed", 0)

(* ---- product delete ---- *)

admin_delete_product_finish(u, product_id) ==
    IF ~Admin(u) THEN Ignored
    ELSE IF product_id \notin DOMAIN storage_db.products
    THEN Out(World, fsm, "not_found", 0)
    ELSE LET r == delete_product(World, product_id)
         IN  Out(r.w, fsm, IF r.ret THEN "deleted" ELSE "failed", 0)

(* ---- back to the admin panel ---- *)

admin_back(u) ==
    IF ~Admin(u) THEN Ignored
    ELSE Out(World, fsm, "admin_panel", 0)

(* ---- single product add ---- *)

admin_add_product_category(u, category_id) ==
    IF ~Admin(u) THEN Ignored
    ELSE Out(World,
             set_state(update_data(fsm, u, "product_category_id", category_id),
                       u, "waiting_for_product_name"),
             "prompt", 0)

admin_add_product_name(u, message) ==
    IF ~Admin(u) THEN IgnoredAndCleared(u)
    ELSE IF ~message.has_text \/ StrippedLen(message.text) < 2
    THEN Out(World, fsm, "too_short", 0)
    ELSE Out(World,
             set_state(update_data(fsm, u, "product_name", strip(message.text)),
                       u, "waiting_for_product_description"),
             "prompt", 0)

admin_add_product_description(u, message) ==
    IF ~Admin(u) THEN IgnoredAndCleared(u)
    ELSE IF ~message.has_text \/ StrippedLen(message.text) < 5
    THEN Out(World, fsm, "too_short", 0)
    ELSE Out(World,
             set_state(update_data(fsm, u, "product_description", strip(message.text)),
                       u, "waiting_for_product_price"),
             "prompt", 0)

\* float(None) raises TypeError, which `except ValueError` lets through
admin_add_product_price(u, message) ==
    IF ~Admin(u) THEN IgnoredAndCleared(u)
    ELSE IF ~message.has_text
    THEN Out(World, fsm, "exception", 0)
    ELSE LET price == float(message.text)
         IN  IF ~price.ok THEN Out(World, fsm, "invalid_price", 0)
             ELSE IF FloatLe(price.value, 0)
             THEN Out(World, fsm, "price_not_positive", 0)
             ELSE Out(World,
                      set_state(update_data(fsm, u, "product_price", price.value),
                                u, "waiting_for_product_photo"),
                      "prompt", 0)

\* photo_url: the file id of the photo, or None
PhotoUrl(message) == IF message.photo THEN 1 ELSE None

\* the message is neither a photo nor the text that skips the photo
NeedsPhotoOrNo(message) ==
    ~message.photo /\ message.has_text /\ message.text # ""
                   /\ ~IsNoSentinel(message.text)

admin_add_product_finish(u, message) ==
    IF ~Admin(u) THEN IgnoredAndCleared(u)
    ELSE IF NeedsPhotoOrNo(message)
    THEN Out(World, fsm, "photo_or_no", 0)
    ELSE LET user_data == DataOf(u)
             product == Product(get(user_data, "product_name", "None"),
                                get(user_data, "product_description", "None"),
                                get(user_data, "product_price", None),
                                get(user_data, "product_category_id", None),
                                None,
                                PhotoUrl(message))
             r == add_product(World, product)
         IN  Out(r.w, clear(fsm, u), "added", r.ret)

(* ---- product added directly to a city ---- *)

admin_add_product_to_city_city(u, city_id) ==
    IF ~Admin(u) THEN Ignored
    ELSE IF city_id \notin DOMAIN storage_db.cities
    THEN Out(World, fsm, "not_found", 0)
    ELSE Out(World,
             set_state(update_data(fsm, u, "direct_city_id", city_id),
                       u, "waiting_for_product_name_direct"),
             "prompt", 0)

admin_add_product_to_city_name(u, message) ==
    IF ~Admin(u) THEN IgnoredAndCleared(u)
    ELSE IF ~message.has_text \/ StrippedLen(message.text) < 2
    THEN Out(World, fsm, "too_short", 0)
    ELSE Out(World,
             set_state(update_data(fsm, u, "direct_product_name", strip(message.text)),
                       u, "waiting_for_product_description_direct"),
             "prompt", 0)

admin_add_product_to_city_description(u, message) ==
    IF ~Admin(u) THEN IgnoredAndCleared(u)
    ELSE IF ~message.has_text \/ StrippedLen(message.text) < 5
    THEN Out(World, fsm, "too_short", 0)
    ELSE Out(World,
             set_state(update_data(fsm, u, "direct_product_description", strip(message.text)),
                       u, "waiting_for_product_price_direct"),
             "prompt", 0)

admin_add_product_to_city_price(u, message) ==
    IF ~Admin(u) THEN IgnoredAndCleared(u)
    ELSE IF ~message.has_text
    THEN Out(World, fsm, "exception", 0)
    ELSE LET price == float(message.text)
         IN  IF ~price.ok THEN Out(World, fsm, "invalid_price", 0)
             ELSE IF FloatLe(price.value, 0)
             THEN Out(World, fsm, "price_not_positive", 0)
             ELSE Out(World,
                      set_state(update_data(fsm, u, "direct_product_price", price.value),
                                u, "waiting_for_product_photo_direct"),
                      "prompt", 0)

\* the handler taking the category of the product from the draft
admin_add_product_to_city_finish_from_draft(u, message) ==
    IF ~Admin(u) THEN IgnoredAndCleared(u)
    ELSE IF NeedsPhotoOrNo(message)
    THEN Out(World, fsm, "photo_or_no", 0)
    ELSE LET user_data == DataOf(u)
             city_id == get(user_data, "direct_city_id", None)
         IN  IF city_id \notin DOMAIN storage_db.cities
             THEN Out(World, clear(fsm, u), "city_not_found", 0)
             ELSE LET product == Product(get(user_data, "direct_product_name", "None"),
                                         get(user_data, "direct_product_description", "None"),
                                         get(user_data, "direct_product_price", None),
                                         get(user_data, "product_category_id", None),
                                         city_id,
                                         PhotoUrl(message))
                      r == add_product(World, product)
                  IN  Out(r.w, clear(fsm, u), "added", r.ret)

admin_add_product_to_city_finish(u, message) ==
    IF ~Admin(u) THEN IgnoredAndCleared(u)
    ELSE IF NeedsPhotoOrNo(message)
    THEN Out(World, fsm, "photo_or_no", 0)
    ELSE LET user_data == DataOf(u)
             city_id == get(user_data, "direct_city_id", None)
         IN  IF city_id \notin DOMAIN storage_db.cities
             THEN Out(World, clear(fsm, u), "city_not_found", 0)
             ELSE LET product == Product(get(user_data, "direct_product_name", "None"),
                                         get(user_data, "direct_product_description", "None"),
                                         get(user_data, "direct_product_price", None),
                                         None,
                                         city_id,
                                         PhotoUrl(message))
                      r == add_product(World, product)
                  IN  Out(r.w, clear(fsm, u), "added", r.ret)

(* ---- bulk product add ---- *)

admin_add_multiple_products_category(u, category_id) ==
    IF ~Admin(u) THEN Ignored
    ELSE Out(World,
             set_state(update_data(update_data(fsm, u,
                           "multiple_category_id", category_id),
                           u, "multiple_type", "category"),
                       u, "waiting_for_multiple_products_data"),
             "prompt", 0)

admin_add_multiple_products_city(u, city_id) ==
    IF ~Admin(u) THEN Ignored
    ELSE Out(World,
             set_state(update_data(update_data(fsm, u,
                           "multiple_city_id", city_id),
                           u, "multiple_type", "city"),
                       u, "waiting_for_multiple_products_data"),
             "prompt", 0)

\* message.text.split on a message without text raises AttributeError
admin_add_multiple_products_names(u, message) ==
    IF ~Admin(u) THEN IgnoredAndCleared(u)
    ELSE IF ~message.has_text
    THEN Out(World, fsm, "exception", 0)
    ELSE LET product_names == StripParts(message.parts)
         IN  IF product_names = << >>
             THEN Out(World, fsm, "no_names", 0)
             ELSE Out(World,
                      set_state(update_data(fsm, u, "product_names", product_names),
                                u, "waiting_for_multiple_products_descriptions"),
                      "prompt", 0)

\* the handler without its comparison of the two counts
admin_add_multiple_products_descriptions_uncounted(u, message) ==
    IF ~Admin(u) THEN IgnoredAndCleared(u)
    ELSE IF ~message.has_text
    THEN Out(World, fsm, "exception", 0)
    ELSE Out(World,
             set_state(update_data(fsm, u, "product_descriptions",
                                   StripParts(message.parts)),
                       u, "waiting_for_multiple_products_prices"),
             "prompt", 0)

admin_add_multiple_products_descriptions(u, message) ==
    IF ~Admin(u) THEN IgnoredAndCleared(u)
    ELSE IF ~message.has_text
    THEN Out(World, fsm, "exception", 0)
    ELSE LET product_names == get(DataOf(u), "product_names", << >>)
             descriptions == StripParts(message.parts)
         IN  IF Len(descriptions) # Len(product_names)
             THEN Out(World, fsm, "count_mismatch", 0)
             ELSE Out(World,
                      set_state(update_data(fsm, u, "product_descriptions", descriptions),
                                u, "waiting_for_multiple_products_prices"),
                      "prompt", 0)

\* prices.append(float(price_text)) until the first token that is rejected
RECURSIVE ParsePrices(_)
ParsePrices(price_texts) ==
    IF price_texts = << >>
    THEN [reply |-> "ok", prices |-> << >>]
    ELSE LET price == float(Head(price_texts))
         IN  IF ~price.ok THEN [reply |-> "invalid_price", prices |-> << >>]
             ELSE IF FloatLe(price.value, 0)
             THEN [reply |-> "price_not_positive", prices |-> << >>]
             ELSE LET rest == ParsePrices(Tail(price_texts))
                  IN  IF rest.reply # "ok" THEN rest
                      ELSE [reply |-> "ok",
                            prices |-> << price.value >> \o rest.prices]

\* the whole body sits in try/except Exception, which answers and keeps the state
admin_add_multiple_products_prices(u, message) ==
    IF ~Admin(u) THEN IgnoredAndCleared(u)
    ELSE IF ~message.has_text
    THEN Out(World, fsm, "error", 0)
    ELSE LET product_names == get(DataOf(u), "product_names", << >>)
             price_texts == StripParts(message.parts)
             parsed == ParsePrices(price_texts)
         IN  IF Len(price_texts) # Len(product_names)
             THEN Out(World, fsm, "count_mismatch", 0)
             ELSE IF parsed.reply # "ok"
             THEN Out(World, fsm, parsed.reply, 0)
             ELSE Out(World,
                      set_state(update_data(fsm, u, "product_prices", parsed.prices),
                                u, "waiting_for_multiple_products_photos"),
                      "prompt", 0)

\* for i, product_name in enumerate(product_names): storage_db.add_product(...)
RECURSIVE add_products_loop(_, _, _, _, _, _, _, _)
add_products_loop(w, i, names, descriptions, prices, category_id, city_id, photo_url) ==
    IF i > Len(names)
    THEN w
    ELSE LET product == Product(names[i],
                                IF i <= Len(descriptions) THEN descriptions[i] ELSE "",
                                IF i <= Len(prices) THEN prices[i] ELSE 0,
                                category_id, city_id, photo_url)
         IN  add_products_loop(add_product(w, product).w, i + 1, names,
                               descriptions, prices, category_id, city_id, photo_url)

admin_add_multiple_products_finish(u, message) ==
    IF ~Admin(u) THEN IgnoredAndCleared(u)
    ELSE LET user_data == DataOf(u)
             product_names == get(user_data, "product_names", << >>)
             product_descriptions == get(user_data, "product_descriptions", << >>)
             product_prices == get(user_data, "product_prices", << >>)
             multiple_type == get(user_data, "multiple_type", "category")
         IN  IF Len(product_names) # Len(product_descriptions)
                \/ Len(product_names) # Len(product_prices)
             THEN Out(World, clear(fsm, u), "count_mismatch", 0)
             ELSE IF NeedsPhotoOrNo(message)
             THEN Out(World, fsm, "photo_or_no", 0)
             ELSE IF multiple_type = "category"
             THEN LET category_id == get(user_data, "multiple_category_id", None)
                      w1 == add_products_loop(World, 1, product_names,
                                product_descriptions, product_prices,
                                category_id, None, PhotoUrl(message))
                  IN  Out(w1, clear(fsm, u), "added", w1.db.next_product_id - 1)
             ELSE LET city_id == get(user_data, "multiple_city_id", None)
                      w1 == add_products_loop(World, 1, product_names,
                                product_descriptions, product_prices,
                                None, city_id, PhotoUrl(message))
                  IN  \* result_text reads city.order: AttributeError on None,
                      \* after the products were added, before state.clear()
                      IF product_names # << >>
                         /\ city_id \notin DOMAIN storage_db.cities
                      THEN Out(w1, fsm, "exception", w1.db.next_product_id - 1)
                      ELSE Out(w1, clear(fsm, u), "added", w1.db.next_product_id - 1)

(* ---- city reorder ---- *)

admin_city_order(u) ==
    IF ~Admin(u) THEN Ignored
    ELSE IF DOMAIN storage_db.cities = {}
    THEN Out(World, fsm, "no_cities", 0)
    ELSE Out(World, set_state(fsm, u, "waiting_for_city_order"), "prompt", 0)

\* [int(id_str.strip()) for id_str in ... if id_str.strip()], or ValueError
RECURSIVE ParseIds(_)
ParseIds(id_strs) ==
    IF id_strs = << >>
    THEN [ok |-> TRUE, ids |-> << >>]
    ELSE LET id == int(Head(id_strs))
             rest == ParseIds(Tail(id_strs))
         IN  IF ~id.ok \/ ~rest.ok
             THEN [ok |-> FALSE, ids |-> << >>]
             ELSE [ok |-> TRUE, ids |-> << id.value >> \o rest.ids]

\* for city_id in city_ids: if city_id not in storage_db.cities: append
RECURSIVE MissingIds(_, _)
MissingIds(db, city_ids) ==
    IF city_ids = << >>
    THEN << >>
    ELSE IF Head(city_ids) \notin DOMAIN db.cities
         THEN << Head(city_ids) >> \o MissingIds(db, Tail(city_ids))
         ELSE MissingIds(db, Tail(city_ids))

\* the mapping numbered from 0, as enumerate(city_ids) would give
OrderMapping_from_zero(city_ids) ==
    [c \in {city_ids[i] : i \in DOMAIN city_ids} |->
        Max({i \in DOMAIN city_ids : city_ids[i] = c}) - 1]

\* for order, city_id in enumerate(city_ids, 1): order_mapping[city_id] = order
OrderMapping(city_ids) ==
    [c \in {city_ids[i] : i \in DOMAIN city_ids} |->
        Max({i \in DOMAIN city_ids : city_ids[i] = c})]

\* the handler without its missing-ids check
admin_set_city_order_finish_unchecked(u, message) ==
    IF ~Admin(u) THEN IgnoredAndCleared(u)
    ELSE IF ~message.has_text
    THEN Out(World, clear(fsm, u), "error", 0)
    ELSE LET parsed == ParseIds(StripParts(message.parts))
         IN  IF ~parsed.ok
             THEN Out(World, clear(fsm, u), "invalid_format", 0)
             ELSE IF parsed.ids = << >>
             THEN Out(World, fsm, "empty_list", 0)
             ELSE LET r == bulk_update_city_orders(World, OrderMapping(parsed.ids))
                  IN  Out(r.w, clear(fsm, u), "reordered", 0)

admin_set_city_order_finish(u, message) ==
    IF ~Admin(u) THEN IgnoredAndCleared(u)
    ELSE IF ~message.has_text
    THEN Out(World, clear(fsm, u), "error", 0)
    ELSE LET parsed == ParseIds(StripParts(message.parts))
         IN  IF ~parsed.ok
             THEN Out(World, clear(fsm, u), "invalid_format", 0)
             ELSE IF parsed.ids = << >>
             THEN Out(World, fsm, "empty_list", 0)
             ELSE IF MissingIds(storage_db, parsed.ids) # << >>
             THEN [Out(World, fsm, "missing_ids", 0)
                       EXCEPT !.listed = MissingIds(storage_db, parsed.ids)]
             ELSE LET r == bulk_update_city_orders(World, OrderMapping(parsed.ids))
                  IN  Out(r.w, clear(fsm, u),
                          IF r.ret THEN "reordered" ELSE "failed", 0)

-----------------------------------------------------------------------------
(* Updates delivered to the dispatcher.  A callback handler has no state   *)
(* filter, so a button press is handled in every conversation state; a     *)
(* message goes to the handler registered for the sender's state.          *)

\* the handler's outcome becomes the state
Deliver(op, u, arg, input, o) ==
    /\ WithinIds(o)
    /\ Handle(op, u, arg, input, o)
    /\ UNCHANGED tasks

\* what the operator may send at each prompt
NameMessages ==
    {TextMessage("Hammer"), TextMessage(" Saw "), TextMessage("x"), PhotoMessage}

DescriptionMessages ==
    {TextMessage("Steel hammer"), TextMessage("abc"), PhotoMessage}

PriceMessages ==
    {TextMessage("9.99"), TextMessage("0"), TextMessage("-5"), TextMessage("abc")}

PhotoMessages ==
    {TextMessage("net"), TextMessage("x"), PhotoMessage, DocumentMessage}

NameListMessages ==
    {ListMessage(<<"Hammer", "Saw">>), ListMessage(<<"Hammer", " ">>),
     ListMessage(<<" ">>)}

DescriptionListMessages ==
    {ListMessage(<<"Steel hammer", "Hand saw">>), ListMessage(<<"Steel hammer">>)}

PriceListMessages ==
    {ListMessage(<<"9.99", "5">>), ListMessage(<<"9.99">>),
     ListMessage(<<"9.99", "abc">>), ListMessage(<<"0">>)}

IdListMessages ==
    {ListMessage(<<"2", "1">>), ListMessage(<<"1">>), ListMessage(<<"1", "99">>),
     ListMessage(<<"3", "1", "2">>), ListMessage(<<"99", "1", "5">>),
     ListMessage(<<"1", "abc">>), ListMessage(<<" ">>), PhotoMessage}

On_admin_add_city_start ==
    \E u \in Users :
        /\ Budget(MaxPresses)
        /\ Deliver("admin_add_city_start", u, 0, << >>, admin_add_city_start(u))

On_admin_add_city_finish ==
    \E u \in Users, message \in NameMessages :
        /\ StateOf(u) = "waiting_for_city_name"
        /\ UNCHANGED steps
        /\ Deliver("admin_add_city_finish", u, 0, message.parts,
                   admin_add_city_finish(u, message))

On_admin_delete_city_finish ==
    \E u \in Users, city_id \in buttons.city \cap (1..MaxId) :
        /\ Budget(MaxPresses)
        /\ Deliver("admin_delete_city_finish", u, city_id, << >>,
                   admin_delete_city_finish(u, city_id))

On_admin_add_category_city ==
    \E u \in Users, city_id \in buttons.city \cap (1..MaxId) :
        /\ Budget(MaxPresses)
        /\ Deliver("admin_add_category_city", u, city_id, << >>,
                   admin_add_category_city(u, city_id))

On_admin_add_category_finish ==
    \E u \in Users, message \in NameMessages :
        /\ StateOf(u) = "waiting_for_category_name"
        /\ UNCHANGED steps
        /\ Deliver("admin_add_category_finish", u, 0, message.parts,
                   admin_add_category_finish(u, message))

On_admin_delete_category_finish ==
    \E u \in Users, category_id \in buttons.category \cap (1..MaxId) :
        /\ Budget(MaxPresses)
        /\ Deliver("admin_delete_category_finish", u, category_id, << >>,
                   admin_delete_category_finish(u, category_id))

On_admin_delete_product_finish ==
    \E u \in Users, product_id \in buttons.product \cap (1..MaxId) :
        /\ Budget(MaxPresses)
        /\ Deliver("admin_delete_product_finish", u, product_id, << >>,
                   admin_delete_product_finish(u, product_id))

On_admin_back ==
    \E u \in Users :
        /\ Budget(MaxPresses)
        /\ Deliver("admin_back", u, 0, << >>, admin_back(u))

On_admin_add_product_category ==
    \E u \in Users, category_id \in buttons.category \cap (1..MaxId) :
        /\ Budget(MaxPresses)
        /\ Deliver("admin_add_product_category", u, category_id, << >>,
                   admin_add_product_category(u, category_id))

On_admin_add_product_name ==
    \E u \in Users, message \in NameMessages :
        /\ StateOf(u) = "waiting_for_product_name"
        /\ UNCHANGED steps
        /\ Deliver("admin_add_product_name", u, 0, message.parts,
                   admin_add_product_name(u, message))

On_admin_add_product_description ==
    \E u \in Users, message \in DescriptionMessages :
        /\ StateOf(u) = "waiting_for_product_description"
        /\ UNCHANGED steps
        /\ Deliver("admin_add_product_description", u, 0, message.parts,
                   admin_add_product_description(u, message))

On_admin_add_product_price ==
    \E u \in Users, message \in PriceMessages \cup {PhotoMessage} :
        /\ StateOf(u) = "waiting_for_product_price"
        /\ UNCHANGED steps
        /\ Deliver("admin_add_product_price", u, 0, message.parts,
                   admin_add_product_price(u, message))

On_admin_add_product_finish ==
    \E u \in Users, message \in PhotoMessages :
        /\ StateOf(u) = "waiting_for_product_photo"
        /\ UNCHANGED steps
        /\ Deliver("admin_add_product_finish", u, 0, message.parts,
                   admin_add_product_finish(u, message))

On_admin_add_product_to_city_city ==
    \E u \in Users, city_id \in buttons.city \cap (1..MaxId) :
        /\ Budget(MaxPresses)
        /\ Deliver("admin_add_product_to_city_city", u, city_id, << >>,
                   admin_add_product_to_city_city(u, city_id))

On_admin_add_product_to_city_name ==
    \E u \in Users, message \in NameMessages :
        /\ StateOf(u) = "waiting_for_product_name_direct"
        /\ UNCHANGED steps
        /\ Deliver("admin_add_product_to_city_name", u, 0, message.parts,
                   admin_add_product_to_city_name(u, message))

On_admin_add_product_to_city_description ==
    \E u \in Users, message \in DescriptionMessages :
        /\ StateOf(u) = "waiting_for_product_description_direct"
        /\ UNCHANGED steps
        /\ Deliver("admin_add_product_to_city_description", u, 0, message.parts,
                   admin_add_product_to_city_description(u, message))

On_admin_add_product_to_city_price ==
    \E u \in Users, message \in PriceMessages \cup {PhotoMessage} :
        /\ StateOf(u) = "waiting_for_product_price_direct"
        /\ UNCHANGED steps
        /\ Deliver("admin_add_product_to_city_price", u, 0, message.parts,
                   admin_add_product_to_city_price(u, message))

On_admin_add_product_to_city_finish ==
    \E u \in Users, message \in PhotoMessages :
        /\ StateOf(u) = "waiting_for_product_photo_direct"
        /\ UNCHANGED steps
        /\ Deliver("admin_add_product_to_city_finish", u, 0, message.parts,
                   admin_add_product_to_city_finish(u, message))

On_admin_add_multiple_products_category ==
    \E u \in Users, category_id \in buttons.category \cap (1..MaxId) :
        /\ Budget(MaxPresses)
        /\ Deliver("admin_add_multiple_products_category", u, category_id, << >>,
                   admin_add_multiple_products_category(u, category_id))

On_admin_add_multiple_products_city ==
    \E u \in Users, city_id \in buttons.city \cap (1..MaxId) :
        /\ Budget(MaxPresses)
        /\ Deliver("admin_add_multiple_products_city", u, city_id, << >>,
                   admin_add_multiple_products_city(u, city_id))

On_admin_add_multiple_products_names ==
    \E u \in Users, message \in NameListMessages \cup {PhotoMessage} :
        /\ StateOf(u) = "waiting_for_multiple_products_data"
        /\ UNCHANGED steps
        /\ Deliver("admin_add_multiple_products_names", u, 0, message.parts,
                   admin_add_multiple_products_names(u, message))

On_admin_add_multiple_products_descriptions ==
    \E u \in Users, message \in DescriptionListMessages \cup {PhotoMessage} :
        /\ StateOf(u) = "waiting_for_multiple_products_descriptions"
        /\ UNCHANGED steps
        /\ Deliver("admin_add_multiple_products_descriptions", u, 0, message.parts,
                   admin_add_multiple_products_descriptions(u, message))

On_admin_add_multiple_products_prices ==
    \E u \in Users, message \in PriceListMessages \cup {PhotoMessage} :
        /\ StateOf(u) = "waiting_for_multiple_products_prices"
        /\ UNCHANGED steps
        /\ Deliver("admin_add_multiple_products_prices", u, 0, message.parts,
                   admin_add_multiple_products_prices(u, message))

On_admin_add_multiple_products_finish ==
    \E u \in Users, message \in PhotoMessages :
        /\ StateOf(u) = "waiting_for_multiple_products_photos"
        /\ UNCHANGED steps
        /\ Deliver("admin_add_multiple_products_finish", u, 0, message.parts,
                   admin_add_multiple_products_finish(u, message))

On_admin_city_order ==
    \E u \in Users :
        /\ Budget(MaxPresses)
        /\ Deliver("admin_city_order", u, 0, << >>, admin_city_order(u))

On_admin_set_city_order_finish ==
    \E u \in Users, message \in IdListMessages :
        /\ StateOf(u) = "waiting_for_city_order"
        /\ UNCHANGED steps
        /\ Deliver("admin_set_city_order_finish", u, 0, message.parts,
                   admin_set_city_order_finish(u, message))

\* the category workflows next to city add and city delete
NextCategory ==
    \/ On_admin_add_city_start
    \/ On_admin_add_city_finish
    \/ On_admin_delete_city_finish
    \/ On_admin_add_category_city
    \/ On_admin_add_category_finish
    \/ On_admin_delete_category_finish
    \/ On_admin_back

SpecCategory == Init /\ [][NextCategory]_vars

\* the product workflows next to the three deletes
NextProduct ==
    \/ On_admin_add_product_category
    \/ On_admin_add_product_name
    \/ On_admin_add_product_description
    \/ On_admin_add_product_price
    \/ On_admin_add_product_finish
    \/ On_admin_add_product_to_city_city
    \/ On_admin_add_product_to_city_name
    \/ On_admin_add_product_to_city_description
    \/ On_admin_add_product_to_city_price
    \/ On_admin_add_product_to_city_finish
    \/ On_admin_add_multiple_products_category
    \/ On_admin_add_multiple_products_city
    \/ On_admin_add_multiple_products_names
    \/ On_admin_add_multiple_products_descriptions
    \/ On_admin_add_multiple_products_prices
    \/ On_admin_add_multiple_products_finish
    \/ On_admin_delete_city_finish
    \/ On_admin_delete_category_finish
    \/ On_admin_delete_product_finish

SpecProduct == Init /\ [][NextProduct]_vars

\* the three workflows that add products, nothing deleted in between
NextPlace ==
    \/ On_admin_add_product_category
    \/ On_admin_add_product_name
    \/ On_admin_add_product_description
    \/ On_admin_add_product_price
    \/ On_admin_add_product_finish
    \/ On_admin_add_product_to_city_city
    \/ On_admin_add_product_to_city_name
    \/ On_admin_add_product_to_city_description
    \/ On_admin_add_product_to_city_price
    \/ On_admin_add_product_to_city_finish
    \/ On_admin_add_multiple_products_category
    \/ On_admin_add_multiple_products_city
    \/ On_admin_add_multiple_products_names
    \/ On_admin_add_multiple_products_descriptions
    \/ On_admin_add_multiple_products_prices
    \/ On_admin_add_multiple_products_finish

SpecPlace == Init /\ [][NextPlace]_vars

\* the bulk product add next to the delete of a city
NextBulk ==
    \/ On_admin_add_multiple_products_category
    \/ On_admin_add_multiple_products_city
    \/ On_admin_add_multiple_products_names
    \/ On_admin_add_multiple_products_descriptions
    \/ On_admin_add_multiple_products_prices
    \/ On_admin_add_multiple_products_finish
    \/ On_admin_delete_city_finish

SpecBulk == Init /\ [][NextBulk]_vars

\* the single product add with the texts that float() reads as no number
NotANumberMessages == {TextMessage("nan")}

On_admin_add_product_price_not_a_number ==
    \E u \in Users, message \in NotANumberMessages :
        /\ StateOf(u) = "waiting_for_product_price"
        /\ UNCHANGED steps
        /\ Deliver("admin_add_product_price", u, 0, message.parts,
                   admin_add_product_price(u, message))

NextPrice ==
    \/ On_admin_add_product_category
    \/ On_admin_add_product_name
    \/ On_admin_add_product_description
    \/ On_admin_add_product_price
    \/ On_admin_add_product_price_not_a_number
    \/ On_admin_add_product_finish
    \/ On_admin_delete_product_finish

SpecPrice == Init /\ [][NextPrice]_vars

\* the city reorder workflow next to city add and city delete
NextOrder ==
    \/ On_admin_city_order
    \/ On_admin_set_city_order_finish
    \/ On_admin_add_city_start
    \/ On_admin_add_city_finish
    \/ On_admin_delete_city_finish
    \/ On_admin_back

SpecOrder == Init /\ [][NextOrder]_vars

-----------------------------------------------------------------------------
(* Admin management: AdminManager called directly and through the          *)
(* handlers (specification SpecAdmin)                                      *)

\* the user ids an admin may be asked to add or remove
AdminIds == 1..3

AdminAdd ==
    \E user_id \in AdminIds, requester_id \in AdminIds :
        /\ Budget(MaxOps)
        /\ LET r == add_admin(admin_manager, user_id, requester_id)
           IN  /\ admin_manager' = r.admins
               /\ Commit(World, Call("add_admin", requester_id, user_id, r.ret, 0))
        /\ UNCHANGED <<fsm, issued, buttons, checkout, tasks, outbox>>

AdminRemove ==
    \E user_id \in AdminIds, requester_id \in AdminIds :
        /\ Budget(MaxOps)
        /\ LET r == remove_admin(admin_manager, user_id, requester_id)
           IN  /\ admin_manager' = r.admins
               /\ Commit(World, Call("remove_admin", requester_id, user_id, r.ret, 0))
        /\ UNCHANGED <<fsm, issued, buttons, checkout, tasks, outbox>>

admin_add_admin_start(u) ==
    IF ~Admin(u) THEN Ignored
    ELSE Out(World, set_state(fsm, u, "waiting_for_new_admin_id"), "prompt", 0)

\* int(None) raises TypeError, which `except ValueError` lets through, so
\* the state.clear() after the try is not reached
admin_add_admin_finish(u, message) ==
    IF ~Admin(u) THEN IgnoredAndCleared(u)
    ELSE IF ~message.has_text
    THEN Out(World, fsm, "exception", 0)
    ELSE LET new_admin_id == int(message.text)
         IN  IF ~new_admin_id.ok
             THEN Out(World, clear(fsm, u), "invalid_id", 0)
             ELSE LET r == add_admin(admin_manager, new_admin_id.value, u)
                  IN  [Out(World, clear(fsm, u),
                           IF r.ret THEN "added" ELSE "failed", new_admin_id.value)
                          EXCEPT !.admins = r.admins]

admin_remove_admin_start(u) ==
    IF ~Admin(u) THEN Ignored
    ELSE IF admin_manager \ {u} = {}
    THEN Out(World, fsm, "no_other_admins", 0)
    ELSE Out(World, set_state(fsm, u, "waiting_for_remove_admin_id"), "prompt", 0)

admin_remove_admin_finish(u, message) ==
    IF ~Admin(u) THEN IgnoredAndCleared(u)
    ELSE IF ~message.has_text
    THEN Out(World, fsm, "exception", 0)
    ELSE LET admin_id_to_remove == int(message.text)
         IN  IF ~admin_id_to_remove.ok
             THEN Out(World, clear(fsm, u), "invalid_id", 0)
             ELSE LET r == remove_admin(admin_manager, admin_id_to_remove.value, u)
                  IN  [Out(World, clear(fsm, u),
                           IF r.ret THEN "removed" ELSE "failed",
                           admin_id_to_remove.value)
                          EXCEPT !.admins = r.admins]

AdminIdMessages ==
    {TextMessage("1"), TextMessage("2"), TextMessage("3"), TextMessage("abc"),
     PhotoMessage}

On_admin_add_admin_start ==
    \E u \in Users :
        /\ Budget(MaxPresses)
        /\ Deliver("admin_add_admin_start", u, 0, << >>, admin_add_admin_start(u))

On_admin_add_admin_finish ==
    \E u \in Users, message \in AdminIdMessages :
        /\ StateOf(u) = "waiting_for_new_admin_id"
        /\ UNCHANGED steps
        /\ Deliver("admin_add_admin_finish", u, 0, message.parts,
                   admin_add_admin_finish(u, message))

On_admin_remove_admin_start ==
    \E u \in Users :
        /\ Budget(MaxPresses)
        /\ Deliver("admin_remove_admin_start", u, 0, << >>,
                   admin_remove_admin_start(u))

On_admin_remove_admin_finish ==
    \E u \in Users, message \in AdminIdMessages :
        /\ StateOf(u) = "waiting_for_remove_admin_id"
        /\ UNCHANGED steps
        /\ Deliver("admin_remove_admin_finish", u, 0, message.parts,
                   admin_remove_admin_finish(u, message))

NextAdmin ==
    \/ AdminAdd
    \/ AdminRemove
    \/ On_admin_add_admin_start
    \/ On_admin_add_admin_finish
    \/ On_admin_remove_admin_start
    \/ On_admin_remove_admin_finish
    \/ Restart

SpecAdmin == Init /\ [][NextAdmin]_vars

-----------------------------------------------------------------------------
(* Purchase: product chosen, payment method chosen, proof of payment sent  *)
(* (specification SpecPurchase)                                            *)

\* the try body answers "not found" for a missing or inactive product
show_product_detail(u, product_id) ==
    IF product_id \notin DOMAIN storage_db.products
       \/ ~storage_db.products[product_id].is_active
    THEN Out(World, fsm, "not_found", 0)
    ELSE Out(World, update_data(fsm, u, "selected_product_id", product_id),
             "product", 0)

\* payment_method = callback.data.split("_")[1]
select_payment_method(u, payment_method) ==
    Out(World,
        set_state(update_data(fsm, u, "payment_method", payment_method),
                  u, "waiting_for_payment_proof"),
        "payment_info", 0)

\* admin_manager.get_admins_list(): the set as a list, here by increasing id
RECURSIVE get_admins_list(_)
get_admins_list(admins) ==
    IF admins = {} THEN << >>
    ELSE << Min(admins) >> \o get_admins_list(admins \ {Min(admins)})

\* the notification loop ended by the first send that raises
RECURSIVE notify_admins_until_failure(_, _)
notify_admins_until_failure(admins, unreachable) ==
    IF admins = << >>
    THEN [attempted |-> << >>, delivered |-> {}]
    ELSE IF Head(admins) \in unreachable
    THEN [attempted |-> << Head(admins) >>, delivered |-> {}]
    ELSE LET rest == notify_admins_until_failure(Tail(admins), unreachable)
         IN  [attempted |-> << Head(admins) >> \o rest.attempted,
              delivered |-> rest.delivered \cup {Head(admins)}]

\* for admin_id in admins: try: send_photo / send_document except: log.
\* unreachable: the chats for which the send raises
RECURSIVE notify_admins(_, _)
notify_admins(admins, unreachable) ==
    IF admins = << >>
    THEN [attempted |-> << >>, delivered |-> {}]
    ELSE LET rest == notify_admins(Tail(admins), unreachable)
         IN  [attempted |-> << Head(admins) >> \o rest.attempted,
              delivered |-> IF Head(admins) \in unreachable
                            THEN rest.delivered
                            ELSE rest.delivered \cup {Head(admins)}]

receive_payment_proof(u, message, unreachable) ==
    LET user_data == DataOf(u)
        product_id == get(user_data, "selected_product_id", None)
        payment_method == get(user_data, "payment_method", "None")
    IN  IF product_id \notin DOMAIN storage_db.products
        THEN Out(World, clear(fsm, u), "not_found", 0)
        ELSE IF ~(message.photo \/ message.document)
        THEN Out(World, fsm, "send_proof", 0)
        ELSE LET product == storage_db.products[product_id]
                 payment_proof == IF message.photo THEN "photo" ELSE "document"
                 r == add_order(World, Order(u, product_id, product.name,
                                             product.price, payment_method,
                                             payment_proof))
                 sent == notify_admins(get_admins_list(admin_manager), unreachable)
             IN  [Out(r.w, clear(fsm, u),
                      IF sent.delivered # {} THEN "order_accepted"
                                             ELSE "order_accepted_not_notified",
                      r.ret)
                     EXCEPT !.attempted = sent.attempted,
                            !.delivered = sent.delivered]

PaymentMethods == {"card", "crypto"}

ProofMessages == {PhotoMessage, DocumentMessage, TextMessage("x")}

\* what the history keeps of a message sent as proof
Described(message) ==
    IF message.photo THEN << "(photo)" >>
    ELSE IF message.document THEN << "(document)" >>
    ELSE message.parts

On_show_product_detail ==
    \E u \in Users, product_id \in buttons.product \cap (1..MaxId) :
        /\ Budget(MaxBuyerPresses)
        /\ Deliver("show_product_detail", u, product_id, << >>,
                   show_product_detail(u, product_id))

On_select_payment_method ==
    \E u \in Users, payment_method \in PaymentMethods :
        /\ Budget(MaxBuyerPresses)
        /\ Deliver("select_payment_method", u, 0, << payment_method >>,
                   select_payment_method(u, payment_method))

On_receive_payment_proof ==
    \E u \in Users, message \in ProofMessages, unreachable \in SUBSET admin_manager :
        /\ StateOf(u) = "waiting_for_payment_proof"
        /\ storage_db.next_order_id <= MaxId
        /\ UNCHANGED steps
        /\ Deliver("receive_payment_proof", u,
                   get(DataOf(u), "selected_product_id", None),
                   Described(message),
                   receive_payment_proof(u, message, unreachable))

NextPurchase ==
    \/ On_show_product_detail
    \/ On_select_payment_method
    \/ On_receive_payment_proof
    \/ On_admin_delete_product_finish
    \/ AdminAdd

SpecPurchase == Init /\ [][NextPurchase]_vars

-----------------------------------------------------------------------------
(* Broadcast: message entered, then confirmed or cancelled                 *)
(* (specification SpecBroadcast)                                           *)

\* `if i % 10 == 0`: the progress message is edited after every tenth send
ProgressEvery == 10

admin_broadcast_start(u) ==
    IF ~Admin(u) THEN Ignored
    ELSE Out(World, set_state(fsm, u, "waiting_for_broadcast_message"), "prompt", 0)

\* the state stays waiting_for_broadcast_message until confirm or cancel
admin_broadcast_send(u, message) ==
    IF ~Admin(u) THEN IgnoredAndCleared(u)
    ELSE IF Len(storage_db.users) = 0
    THEN Out(World, clear(fsm, u), "no_users", 0)
    ELSE Out(World, update_data(fsm, u, "broadcast_message", message.text),
             "confirm", 0)

\* the for loop of confirm_broadcast from the i-th user on: send_message
\* raises for the users in unreachable, progress_msg.edit_text raises at
\* the positions in edit_fails; both land in the loop's `except Exception`
RECURSIVE broadcast_loop(_, _, _, _, _)
broadcast_loop(users, i, unreachable, edit_fails, acc) ==
    IF i > Len(users) THEN acc
    ELSE LET user == users[i]
             sent == [acc EXCEPT !.attempted = Append(@, user)]
         IN  IF user \in unreachable
             THEN broadcast_loop(users, i + 1, unreachable, edit_fails,
                                 [sent EXCEPT !.failed = @ + 1])
             ELSE LET counted == [sent EXCEPT !.success = @ + 1,
                                              !.delivered = @ \cup {user}]
                  IN  IF i % ProgressEvery = 0 /\ i \in edit_fails
                      THEN broadcast_loop(users, i + 1, unreachable, edit_fails,
                                          [counted EXCEPT !.failed = @ + 1])
                      ELSE broadcast_loop(users, i + 1, unreachable, edit_fails,
                                          counted)

confirm_broadcast(u, unreachable, edit_fails) ==
    IF ~Admin(u) THEN Ignored
    ELSE LET message_text == get(DataOf(u), "broadcast_message", "")
             users == storage_db.users
         IN  IF message_text = "" \/ Len(users) = 0
             THEN Out(World, clear(fsm, u), "no_message_or_users", 0)
             ELSE LET r == broadcast_loop(users, 1, unreachable, edit_fails,
                               [success |-> 0, failed |-> 0,
                                attempted |-> << >>, delivered |-> {}])
                  IN  [Out(World, clear(fsm, u), "report", 0)
                          EXCEPT !.attempted = r.attempted,
                                 !.delivered = r.delivered,
                                 !.report = [success |-> r.success,
                                             failed |-> r.failed]]

cancel_broadcast(u) ==
    IF ~Admin(u) THEN Ignored
    ELSE Out(World, clear(fsm, u), "cancelled", 0)

\* the users file an earlier run left: users 1..n registered in that order
RecipientFiles ==
    {[SmallCatalogFiles EXCEPT !.users = [i \in 1..n |-> i]] :
         n \in 0..MaxRecipients}

InitBroadcast == InitFrom(RecipientFiles)

BroadcastMessages == {TextMessage("x"), PhotoMessage}

\* the positions at which the progress message is edited
ProgressPoints == {i \in 1..Len(storage_db.users) : i % ProgressEvery = 0}

\* the recipients whose send_message raises in one broadcast
UnreachableSets ==
    {S \in SUBSET {storage_db.users[i] : i \in 1..Len(storage_db.users)} :
         Cardinality(S) <= MaxUnreachable}

On_admin_broadcast_start ==
    \E u \in Users :
        /\ Budget(MaxPresses)
        /\ Deliver("admin_broadcast_start", u, 0, << >>, admin_broadcast_start(u))

On_admin_broadcast_send ==
    \E u \in Users, message \in BroadcastMessages :
        /\ StateOf(u) = "waiting_for_broadcast_message"
        /\ outbox.entries < MaxPresses
        /\ UNCHANGED steps
        /\ Deliver("admin_broadcast_send", u, 0, message.parts,
                   admin_broadcast_send(u, message))

On_confirm_broadcast ==
    \E u \in Users, unreachable \in UnreachableSets,
       edit_fails \in SUBSET ProgressPoints :
        /\ Budget(MaxPresses)
        /\ Deliver("confirm_broadcast", u, outbox.entries, << >>,
                   confirm_broadcast(u, unreachable, edit_fails))

On_cancel_broadcast ==
    \E u \in Users :
        /\ Budget(MaxPresses)
        /\ Deliver("cancel_broadcast", u, 0, << >>, cancel_broadcast(u))

NextBroadcast ==
    \/ On_admin_broadcast_start
    \/ On_admin_broadcast_send
    \/ On_confirm_broadcast
    \/ On_cancel_broadcast

SpecBroadcast == InitBroadcast /\ [][NextBroadcast]_vars

-----------------------------------------------------------------------------
(* The buttons of the admin panel pressed by admins and by others, next to *)
(* the buyer's choice of a payment method (specification SpecButtons)      *)

NextButtons ==
    \/ On_admin_add_city_start
    \/ On_admin_delete_city_finish
    \/ On_admin_add_category_city
    \/ On_admin_delete_category_finish
    \/ On_admin_delete_product_finish
    \/ On_admin_add_product_category
    \/ On_admin_add_product_to_city_city
    \/ On_admin_add_multiple_products_category
    \/ On_admin_add_multiple_products_city
    \/ On_admin_city_order
    \/ On_admin_add_admin_start
    \/ On_admin_remove_admin_start
    \/ On_admin_broadcast_start
    \/ On_confirm_broadcast
    \/ On_cancel_broadcast
    \/ On_admin_back
    \/ On_select_payment_method

SpecButtons == Init /\ [][NextButtons]_vars

-----------------------------------------------------------------------------
(* The category workflows on a disk that may refuse a write                *)
(* (specification SpecDisk)                                                *)

\* the outcome of a handler during which every open(filename, 'w') raised:
\* save_data prints the exception and returns, the files stay as they were
WriteFails(o) == [o EXCEPT !.w.files = files]

On_admin_add_city_finish_write_fails ==
    \E u \in Users, message \in NameMessages :
        /\ StateOf(u) = "waiting_for_city_name"
        /\ UNCHANGED steps
        /\ Deliver("admin_add_city_finish", u, 0, message.parts,
                   WriteFails(admin_add_city_finish(u, message)))

NextDisk ==
    \/ On_admin_add_city_start
    \/ On_admin_add_city_finish
    \/ On_admin_add_city_finish_write_fails
    \/ On_admin_delete_city_finish
    \/ On_admin_add_category_city
    \/ On_admin_add_category_finish
    \/ On_admin_delete_category_finish
    \/ On_admin_back

SpecDisk == Init /\ [][NextDisk]_vars

-----------------------------------------------------------------------------
(* The /admin command next to the purchase and the city add                *)
(* (specification SpecCommand)                                             *)

cmd_admin(u) ==
    IF ~Admin(u) THEN Out(World, fsm, "access_denied", 0)
    ELSE Out(World, fsm, "admin_panel", 0)

\* The dispatcher offers a message to the message handlers in the order of
\* their registration and the first whose filter passes handles it.
\* receive_payment_proof is registered before cmd_admin, the handlers of
\* the other states after it.
On_admin_command ==
    \E u \in Users :
        /\ UNCHANGED steps
        /\ IF StateOf(u) = "waiting_for_payment_proof"
           THEN Deliver("receive_payment_proof", u,
                        get(DataOf(u), "selected_product_id", None),
                        << "/admin" >>,
                        receive_payment_proof(u, TextMessage("/admin"), {}))
           ELSE Deliver("cmd_admin", u, 0, << "/admin" >>, cmd_admin(u))

NextCommand ==
    \/ On_admin_command
    \/ On_show_product_detail
    \/ On_select_payment_method
    \/ On_receive_payment_proof
    \/ On_admin_add_city_start
    \/ On_admin_add_city_finish

SpecCommand == Init /\ [][NextCommand]_vars

-----------------------------------------------------------------------------
(* Handlers of concurrent updates: telegram_webhook awaits dp.feed_update  *)
(* once per request, so a handler runs up to its next await and another    *)
(* request's handler may run before it resumes (specification SpecCascade) *)

\* the first unused slot for a handler that is about to suspend
FreeTask(t) ==
    /\ tasks[t] = NoTask
    /\ \A s \in 1..(t - 1) : tasks[s] # NoTask

Suspended(op, u, pc, arg) ==
    [NoTask EXCEPT !.op = op, !.user = u, !.pc = pc, !.arg = arg]

\* the handler ran to `await callback.message.edit_text(...)` (or to
\* `await callback.answer(...)`): everything before the await is done
SuspendAtReply(op, u, arg, o) ==
    \E t \in TaskIds :
        /\ FreeTask(t)
        /\ WithinIds(o)
        /\ Handle(op, u, arg, << >>, o)
        /\ tasks' = IF o.reply = "none" THEN tasks
                    ELSE [tasks EXCEPT ![t] = Suspended(op, u, "reply", arg)]

Begin_admin_delete_city_finish ==
    \E u \in Users, city_id \in buttons.city \cap (1..MaxId) :
        /\ Budget(MaxPresses)
        /\ SuspendAtReply("admin_delete_city_finish", u, city_id,
                          admin_delete_city_finish(u, city_id))

Begin_admin_delete_category_finish ==
    \E u \in Users, category_id \in buttons.category \cap (1..MaxId) :
        /\ Budget(MaxPresses)
        /\ SuspendAtReply("admin_delete_category_finish", u, category_id,
                          admin_delete_category_finish(u, category_id))

\* the send returned and the handler ran to its end
Resume_reply ==
    \E t \in TaskIds :
        /\ tasks[t].pc = "reply"
        /\ tasks' = [tasks EXCEPT ![t] = NoTask]
        /\ UNCHANGED <<storage_db, files, admin_manager, fsm, last, pre,
                       pre_admins, issued, steps, buttons, checkout, outbox>>

NextCascade ==
    \/ Begin_admin_delete_city_finish
    \/ Begin_admin_delete_category_finish
    \/ Resume_reply
    \/ On_show_product_detail
    \/ On_admin_delete_product_finish
    \/ AdminAdd

SpecCascade == Init /\ [][NextCascade]_vars

-----------------------------------------------------------------------------
(* The broadcast as the event loop runs it: one step per await of          *)
(* confirm_broadcast, other updates handled in between (specifications     *)
(* SpecDispatch and, with the awaits returning, SpecDispatchFair)          *)

\* CommandStart is the first message handler and has no state filter
cmd_start(u) == Out(add_user(World, u), fsm, "welcome", 0)

On_cmd_start ==
    \E u \in Users :
        /\ Budget(MaxPresses)
        /\ UNCHANGED tasks
        /\ Handle("cmd_start", u, 0, << "/start" >>, cmd_start(u))

\* an await on the Bot API returns or raises
Outcomes == {"returned", "raised"}

\* confirm_broadcast up to `progress_msg = await callback.message.edit_text`
confirm_broadcast_begin(u) ==
    IF ~Admin(u) THEN Ignored
    ELSE LET message_text == get(DataOf(u), "broadcast_message", "")
             users == storage_db.users
         IN  IF message_text = "" \/ Len(users) = 0
             THEN Out(World, clear(fsm, u), "no_message_or_users", 0)
             ELSE Out(World, fsm, "starting", 0)

Begin_confirm_broadcast ==
    \E u \in Users, t \in TaskIds :
        /\ FreeTask(t)
        /\ UNCHANGED steps
        /\ LET o == confirm_broadcast_begin(u)
           IN  /\ Handle("confirm_broadcast", u, outbox.entries, << >>, o)
               /\ tasks' =
                      IF o.reply # "starting" THEN tasks
                      ELSE [tasks EXCEPT ![t] =
                               [Suspended("confirm_broadcast", u, "start_edit",
                                          outbox.entries)
                                   EXCEPT !.i = 1,
                                          !.registered = Len(storage_db.users)]]

\* the first edit_text returned (success = 0, failed = 0, the loop begins)
\* or raised (nothing catches it: the handler ends)
start_edit(t, outcome) ==
    /\ UNCHANGED steps
    /\ Handle("confirm_broadcast", tasks[t].user, tasks[t].arg, << >>,
              Out(World, fsm,
                  IF outcome = "raised" THEN "exception" ELSE "started", 0))
    /\ tasks' = [tasks EXCEPT ![t].pc =
                     IF outcome = "raised" THEN "raised" ELSE "loop"]

\* one pass of `for i, user in enumerate(users, 1)` over the live list:
\* send_message, success += 1, the progress edit at every tenth position,
\* the sleep; an exception of send or edit adds 1 to failed
loop_pass(t, send, edit) ==
    LET task == tasks[t]
        users == storage_db.users
        user == users[task.i]
        edited == task.i % ProgressEvery = 0
    IN  /\ task.i <= Len(users)
        /\ edit = "raised" => (send = "returned" /\ edited)
        /\ UNCHANGED steps
        /\ Handle("confirm_broadcast", task.user, task.arg, << >>,
                  [Out(World, fsm, "sending", 0)
                      EXCEPT !.attempted = << user >>,
                             !.delivered = IF send = "returned" THEN {user}
                                           ELSE {}])
        /\ tasks' = [tasks EXCEPT
                        ![t].i = @ + 1,
                        ![t].sent = Append(@, user),
                        ![t].success = IF send = "returned" THEN @ + 1 ELSE @,
                        ![t].failed = IF send = "raised" \/ edit = "raised"
                                      THEN @ + 1 ELSE @]

\* the list is exhausted: result_text is built and
\* `await progress_msg.edit_text(result_text, ...)` is called
loop_exit(t) ==
    /\ tasks[t].i > Len(storage_db.users)
    /\ tasks' = [tasks EXCEPT ![t].pc = "final_edit"]
    /\ UNCHANGED <<storage_db, files, admin_manager, fsm, last, pre, pre_admins,
                   issued, steps, buttons, checkout, outbox>>

\* the edit that shows the report returned, then `await state.clear()`;
\* or it raised, and the handler ends before state.clear()
final_edit(t, outcome) ==
    /\ UNCHANGED steps
    /\ Handle("confirm_broadcast", tasks[t].user, tasks[t].arg, << >>,
              IF outcome = "raised" THEN Out(World, fsm, "exception", 0)
              ELSE [Out(World, clear(fsm, tasks[t].user), "report", 0)
                       EXCEPT !.report = [success |-> tasks[t].success,
                                          failed |-> tasks[t].failed]])
    /\ tasks' = [tasks EXCEPT ![t].pc =
                     IF outcome = "raised" THEN "raised" ELSE "done"]

At(t, op, pc) == tasks[t].op = op /\ tasks[t].pc = pc

Resume_confirm_broadcast_start ==
    \E t \in TaskIds, outcome \in Outcomes :
        /\ At(t, "confirm_broadcast", "start_edit")
        /\ start_edit(t, outcome)

Step_confirm_broadcast_loop ==
    \E t \in TaskIds, send \in Outcomes, edit \in Outcomes :
        /\ At(t, "confirm_broadcast", "loop")
        /\ loop_pass(t, send, edit)

Step_confirm_broadcast_exit ==
    \E t \in TaskIds :
        /\ At(t, "confirm_broadcast", "loop")
        /\ loop_exit(t)

Resume_confirm_broadcast_report ==
    \E t \in TaskIds, outcome \in Outcomes :
        /\ At(t, "confirm_broadcast", "final_edit")
        /\ final_edit(t, outcome)

NextDispatch ==
    \/ On_cmd_start
    \/ On_admin_broadcast_start
    \/ On_admin_broadcast_send
    \/ Begin_confirm_broadcast
    \/ Resume_confirm_broadcast_start
    \/ Step_confirm_broadcast_loop
    \/ Step_confirm_broadcast_exit
    \/ Resume_confirm_broadcast_report

SpecDispatch == Init /\ [][NextDispatch]_vars

\* every await of a suspended confirm_broadcast eventually returns or raises
SpecDispatchFair ==
    /\ Init
    /\ [][NextDispatch]_vars
    /\ WF_vars(Resume_confirm_broadcast_start)
    /\ WF_vars(Step_confirm_broadcast_loop)
    /\ WF_vars(Step_confirm_broadcast_exit)
    /\ WF_vars(Resume_confirm_broadcast_report)

-----------------------------------------------------------------------------
(* The proof of payment as the event loop runs it: the handler suspends in *)
(* the notification of the admins (specification SpecCheckout)             *)

\* receive_payment_proof up to the first `await bot.send_photo(...)` of the
\* notification loop: the order is in the store, the state is not cleared
\* yet; without an order the handler is as short as before
Begin_receive_payment_proof ==
    \E u \in Users, message \in ProofMessages, t \in TaskIds :
        /\ StateOf(u) = "waiting_for_payment_proof"
        /\ storage_db.next_order_id <= MaxId
        /\ FreeTask(t)
        /\ UNCHANGED steps
        /\ LET o == receive_payment_proof(u, message, {})
               product_id == get(DataOf(u), "selected_product_id", None)
           IN  IF o.ret = 0
               THEN /\ Handle("receive_payment_proof", u, product_id,
                              Described(message), o)
                    /\ UNCHANGED tasks
               ELSE /\ Handle("receive_payment_proof", u, product_id,
                              Described(message),
                              Out(o.w, fsm, "notifying", o.ret))
                    /\ tasks' = [tasks EXCEPT ![t] =
                                     Suspended("receive_payment_proof", u,
                                               "notify", o.ret)]

\* the sends to the admins returned or raised, the buyer was answered and
\* `await state.clear()` ran
Resume_receive_payment_proof ==
    \E t \in TaskIds, unreachable \in SUBSET admin_manager :
        /\ At(t, "receive_payment_proof", "notify")
        /\ UNCHANGED steps
        /\ LET u == tasks[t].user
               sent == notify_admins(get_admins_list(admin_manager), unreachable)
           IN  Handle("receive_payment_proof", u, 0, << >>,
                      [Out(World, clear(fsm, u),
                           IF sent.delivered # {} THEN "order_accepted"
                           ELSE "order_accepted_not_notified", 0)
                          EXCEPT !.attempted = sent.attempted,
                                 !.delivered = sent.delivered])
        /\ tasks' = [tasks EXCEPT ![t] = NoTask]

NextCheckout ==
    \/ On_show_product_detail
    \/ On_select_payment_method
    \/ Begin_receive_payment_proof
    \/ Resume_receive_payment_proof

SpecCheckout == Init /\ [][NextCheckout]_vars

-----------------------------------------------------------------------------
(* Admins added and removed while workflows are under way                  *)
(* (specification SpecRevoke)                                              *)

\* add_admin as the program calls it: requested by an admin
AdminGrant ==
    \E requester_id \in admin_manager, user_id \in Users \ admin_manager :
        /\ Budget(MaxOps)
        /\ LET r == add_admin(admin_manager, user_id, requester_id)
           IN  /\ admin_manager' = r.admins
               /\ Commit(World, Call("add_admin", requester_id, user_id, r.ret, 0))
        /\ UNCHANGED <<fsm, issued, buttons, checkout, tasks, outbox>>

\* remove_admin requested by an admin for another admin
AdminRevoke ==
    \E requester_id \in admin_manager :
        \E user_id \in admin_manager \ {requester_id} :
            /\ Budget(MaxOps)
            /\ LET r == remove_admin(admin_manager, user_id, requester_id)
               IN  /\ admin_manager' = r.admins
                   /\ Commit(World, Call("remove_admin", requester_id, user_id,
                                         r.ret, 0))
            /\ UNCHANGED <<fsm, issued, buttons, checkout, tasks, outbox>>

NextRevoke ==
    \/ AdminGrant
    \/ AdminRevoke
    \/ On_admin_add_product_category
    \/ On_admin_add_product_name
    \/ On_admin_add_product_description
    \/ On_admin_add_product_price
    \/ On_admin_add_product_finish
    \/ On_admin_add_multiple_products_category
    \/ On_admin_add_multiple_products_names
    \/ On_admin_add_multiple_products_descriptions
    \/ On_admin_add_multiple_products_prices
    \/ On_admin_add_multiple_products_finish
    \/ On_admin_add_admin_start
    \/ On_admin_add_admin_finish

SpecRevoke == Init /\ [][NextRevoke]_vars

-----------------------------------------------------------------------------
(* Properties of the store (checked under SpecStore) *)

cities == storage_db.cities
categories == storage_db.categories
products == storage_db.products
orders == storage_db.orders

DeletedCity == last.op = "delete_city" /\ last.ok
DeletedCategory == last.op = "delete_category" /\ last.ok

\* categories delete_city(c) had to remove, and the products under them
CategoriesOf(db, city_id) ==
    {k \in DOMAIN db.categories : db.categories[k].city_id = city_id}

ProductsUnder(db, cats) ==
    {p \in DOMAIN db.products : db.products[p].category_id \in cats}

\* C1: after delete_city(c) returned true the store holds no city c, no
\* category whose city id is c, none of the categories that were under c and
\* no product whose category id is one of those removed categories.
C1_DeleteCityCascades ==
    DeletedCity =>
        LET removed == CategoriesOf(pre, last.arg)
        IN  /\ last.arg \notin DOMAIN cities
            /\ CategoriesOf(storage_db, last.arg) = {}
            /\ removed \cap DOMAIN categories = {}
            /\ ProductsUnder(storage_db, removed) = {}

\* a city was deleted that had a category with a product in it
C1_Witness ==
    /\ DeletedCity
    /\ \E k \in CategoriesOf(pre, last.arg) : ProductsUnder(pre, {k}) # {}
    /\ DOMAIN cities # {}

\* C2: after delete_city(c) returned true no product attached directly to
\* city c (city id c, no category id) remains in the store.
C2_DirectProductsDeleted ==
    DeletedCity =>
        \A p \in DOMAIN products :
            ~(products[p].city_id = last.arg /\ products[p].category_id = None)

C6_DeleteCategoryCascades ==
    DeletedCategory =>
        LET kept == {p \in DOMAIN pre.products :
                         pre.products[p].category_id # last.arg}
        IN  /\ last.arg \notin DOMAIN categories
            /\ ProductsUnder(storage_db, {last.arg}) = {}
            /\ DOMAIN products = kept
            /\ \A p \in kept : products[p] = pre.products[p]

\* a category with a product was deleted while a product of another category
\* and a product attached directly to a city were in the store
C6_Witness ==
    /\ DeletedCategory
    /\ ProductsUnder(pre, {last.arg}) # {}
    /\ \E p \in DOMAIN products : products[p].category_id # None
    /\ \E p \in DOMAIN products : products[p].category_id = None

AddOps == {"add_city", "add_category", "add_product", "add_order"}

\* the collection an add_* operation inserts into, as it was before the call
PreCollection(op) ==
    CASE op = "add_city" -> pre.cities
      [] op = "add_category" -> pre.categories
      [] op = "add_product" -> pre.products
      [] op = "add_order" -> pre.orders

IssuedKind(op) ==
    CASE op = "add_city" -> "city"
      [] op = "add_category" -> "category"
      [] op = "add_product" -> "product"
      [] op = "add_order" -> "order"

\* C7: add_city, add_category, add_product and add_order assign an id that
\* no existing entity of that type has, so an add never replaces an entity.
C7_AddNeverReplaces ==
    last.op \in AddOps => last.ret \notin DOMAIN PreCollection(last.op)

\* C8: per entity type the ids returned by add_* are strictly increasing
\* over the whole history, deletions and restarts included: every id an
\* add_* returns is greater than every id it returned before.
C8_IdsStrictlyIncrease ==
    [][last'.op \in AddOps => last'.ret > issued[IssuedKind(last'.op)]]_vars

DeleteOps == {"delete_city", "delete_category", "delete_product"}

DeleteCollection(op) ==
    CASE op = "delete_city" -> pre.cities
      [] op = "delete_category" -> pre.categories
      [] op = "delete_product" -> pre.products

\* C9: delete_city, delete_category and delete_product called with an id
\* that is not in the collection return false and leave every collection
\* and every id counter unchanged.
C9_DeleteAbsentIsNoOp ==
    (last.op \in DeleteOps /\ last.arg \notin DOMAIN DeleteCollection(last.op)) =>
        /\ ~last.ok
        /\ storage_db = pre

\* delete_city was called for an absent city while a category still named
\* that city, and delete_category for an absent category
C9_Witness ==
    /\ last.op = "delete_city"
    /\ last.arg \notin DOMAIN pre.cities
    /\ CategoriesOf(pre, last.arg) # {}
    /\ DOMAIN pre.products # {}

-----------------------------------------------------------------------------
(* Properties of the admin workflows *)

\* C3: after every operation of the admin workflows (single product add,
\* direct-to-city add, bulk add, the three deletes, buttons pressed in any
\* conversation state) every product whose category_id is set names a
\* category in the store and every product whose city_id is set names a
\* city in the store.  The code breaks it: admin_add_product_category stores
\* the category id, the category is deleted with a button of another
\* message, and admin_add_product_finish commits the product without
\* looking the category up.
C3_ProductReferencesResolve ==
    \A p \in DOMAIN products :
        /\ products[p].category_id # None
               => products[p].category_id \in DOMAIN categories
        /\ products[p].city_id # None
               => products[p].city_id \in DOMAIN cities

\* C4: in every state of the category workflows (a city chosen for a new
\* category, the name entered, cities deleted in between) every category's
\* city_id names a city in the store.  The code breaks it:
\* admin_add_category_finish adds the category under the stored city id
\* without looking the city up.
C4_CategoryCityExists ==
    \A c \in DOMAIN categories : categories[c].city_id \in DOMAIN cities

\* the ids the operator's last message supplied
SuppliedIds == ParseIds(StripParts(last.input))

\* the last update was an id list for the reorder prompt with at least one
\* id that is no city of the store
ReorderWithUnknownId ==
    /\ last.op = "admin_set_city_order_finish"
    /\ SuppliedIds.ok
    /\ \E i \in DOMAIN SuppliedIds.ids : SuppliedIds.ids[i] \notin DOMAIN pre.cities

\* C10: when the id list sent to the reorder prompt holds an id that is no
\* city of the store, no city's order changes, the reply lists exactly the
\* unknown ids, and the sender stays in waiting_for_city_order.
C10_UnknownIdAbortsReorder ==
    ReorderWithUnknownId =>
        /\ DOMAIN cities = DOMAIN pre.cities
        /\ \A c \in DOMAIN cities : cities[c].order = pre.cities[c].order
        /\ last.reply = "missing_ids"
        /\ {last.listed[i] : i \in DOMAIN last.listed}
               = {SuppliedIds.ids[i] : i \in DOMAIN SuppliedIds.ids}
                     \ DOMAIN pre.cities
        /\ StateOf(last.user) = "waiting_for_city_order"

\* an unknown id came together with the id of a city whose order the list
\* would have changed
C10_Witness ==
    /\ ReorderWithUnknownId
    /\ \E i \in DOMAIN SuppliedIds.ids :
           /\ SuppliedIds.ids[i] \in DOMAIN pre.cities
           /\ pre.cities[SuppliedIds.ids[i]].order # i

-----------------------------------------------------------------------------
(* Properties of the reorder operations *)

\* C11: bulk_update_city_orders called with a mapping that names an id
\* that is no city returns False and changes no city's order.  The code
\* breaks it: unknown ids are skipped, the known ones get their new order
\* and the call returns True.
C11_BulkReorderAtomic ==
    (/\ last.op = "bulk_update_city_orders"
     /\ ~(DOMAIN last.mapping \subseteq DOMAIN pre.cities))
        => /\ last.ok = FALSE
           /\ cities = pre.cities

\* the last update was a reorder list of distinct ids of cities in the store
ReorderWithDistinctKnownIds ==
    /\ last.op = "admin_set_city_order_finish"
    /\ SuppliedIds.ok
    /\ SuppliedIds.ids # << >>
    /\ \A i \in DOMAIN SuppliedIds.ids : SuppliedIds.ids[i] \in DOMAIN pre.cities
    /\ \A i, j \in DOMAIN SuppliedIds.ids :
           SuppliedIds.ids[i] = SuppliedIds.ids[j] => i = j

\* C12: after a reorder with a list of distinct ids of existing cities the
\* order of each listed city is its 1-based position in the list and every
\* other city keeps the order it had.
C12_ReorderSetsPositions ==
    ReorderWithDistinctKnownIds =>
        /\ DOMAIN cities = DOMAIN pre.cities
        /\ \A i \in DOMAIN SuppliedIds.ids : cities[SuppliedIds.ids[i]].order = i
        /\ \A c \in DOMAIN cities :
               c \notin {SuppliedIds.ids[i] : i \in DOMAIN SuppliedIds.ids}
                   => cities[c] = pre.cities[c]

\* a reorder of several cities that moved one of them, next to a city that
\* was not listed
C12_Witness ==
    /\ ReorderWithDistinctKnownIds
    /\ Len(SuppliedIds.ids) > 1
    /\ \E i \in DOMAIN SuppliedIds.ids :
           pre.cities[SuppliedIds.ids[i]].order # i
    /\ \E c \in DOMAIN cities :
           c \notin {SuppliedIds.ids[i] : i \in DOMAIN SuppliedIds.ids}

-----------------------------------------------------------------------------
(* Properties of admin management *)

\* the last operation asked to remove the requester: remove_admin(u, u), or
\* the requester's own id sent to the removal prompt
SelfRemoval ==
    \/ last.op = "remove_admin" /\ last.arg = last.user
    \/ /\ last.op = "admin_remove_admin_finish"
       /\ Len(last.input) = 1
       /\ int(last.input[1]).ok
       /\ int(last.input[1]).value = last.user

\* C13: a removal whose target is the requester returns False (the handler
\* never answers that the admin was removed) and leaves the admins as they
\* were, however many admins there are.
C13_SelfRemovalRejected ==
    SelfRemoval =>
        /\ admin_manager = pre_admins
        /\ last.op = "remove_admin" => last.ok = FALSE
        /\ last.op = "admin_remove_admin_finish" => last.reply # "removed"

\* an admin asked to remove themselves while another admin was there
C13_Witness ==
    /\ SelfRemoval
    /\ last.user \in pre_admins
    /\ Cardinality(pre_admins) > 1

\* C14: add_admin and remove_admin called by a requester who is no admin
\* return False and leave the admins as they were; the admins change only
\* in an operation requested by one of them (or at startup, C15).
C14_OnlyAdminsChangeAdmins ==
    /\ (last.op \in {"add_admin", "remove_admin"} /\ last.user \notin pre_admins)
           => last.ok = FALSE /\ admin_manager = pre_admins
    /\ (admin_manager # pre_admins /\ last.op \notin {"init", "restart"})
           => last.user \in pre_admins

\* a non-admin asked to remove an admin, or to add somebody new
C14_Witness ==
    /\ last.op \in {"add_admin", "remove_admin"}
    /\ last.user \notin pre_admins
    /\ last.op = "remove_admin" => last.arg \in pre_admins
    /\ last.op = "add_admin" => last.arg \notin pre_admins

\* C15: right after every startup the owner is an admin, whatever set was
\* persisted, the one another admin removed the owner from included.
C15_OwnerAdminAfterStartup ==
    last.op \in {"init", "restart"} => YOUR_TELEGRAM_ID \in admin_manager

\* a restart from a persisted set the owner had been removed from
C15_Witness ==
    /\ last.op = "restart"
    /\ pre_admins # {}
    /\ YOUR_TELEGRAM_ID \notin pre_admins

-----------------------------------------------------------------------------
(* Properties of orders *)

\* the step handles a photo or document sent as proof of payment
ProofArrives ==
    /\ last'.op = "receive_payment_proof"
    /\ last'.input \in {<< "(photo)" >>, << "(document)" >>}

\* what a proof of payment does in one step, from the state it arrives in
ProofCreatesOrder ==
    LET u == last'.user
        product_id == get(fsm[u].data, "selected_product_id", None)
        new == DOMAIN storage_db'.orders \ DOMAIN storage_db.orders
    IN  /\ \A o \in DOMAIN storage_db.orders :
               /\ o \in DOMAIN storage_db'.orders
               /\ storage_db'.orders[o] = storage_db.orders[o]
        /\ IF product_id \in DOMAIN storage_db.products
           THEN /\ Cardinality(new) = 1
                /\ \A o \in new :
                       LET order == storage_db'.orders[o]
                           product == storage_db.products[product_id]
                       IN  /\ order.status = "pending"
                           /\ order.user_id = u
                           /\ order.product_id = product_id
                           /\ order.product_name = product.name
                           /\ order.price = product.price
                           /\ order.payment_method = fsm[u].data["payment_method"]
           ELSE /\ new = {}
                /\ fsm'[u].state = "idle"

\* C16: a photo or document received in waiting_for_payment_proof adds
\* exactly one order when the selected product is in the store: status
\* pending, the sender as buyer, the product's id, name and price as they
\* are then, the payment method the buyer chose; when the selected product
\* is not in the store no order is added and the sender is back to idle.
C16_ProofOfPaymentCreatesOrder == [][ProofArrives => ProofCreatesOrder]_vars

\* an order was created from a proof
C16_Witness ==
    /\ last.op = "receive_payment_proof"
    /\ last.ret \in DOMAIN orders
    /\ orders[last.ret].product_id = last.arg
    /\ orders[last.ret].payment_method \in PaymentMethods

\* the last operation created an order
OrderCreated == last.op = "receive_payment_proof" /\ last.ret # 0

\* C17: when an order is created a notification is sent once to every
\* admin, whichever of them fail; the order stays in the store; the buyer
\* gets the success text exactly when at least one notification arrived.
C17_EveryAdminNotified ==
    OrderCreated =>
        /\ {last.attempted[i] : i \in DOMAIN last.attempted} = pre_admins
        /\ Len(last.attempted) = Cardinality(pre_admins)
        /\ last.ret \in DOMAIN orders
        /\ last.reply = "order_accepted" <=> last.delivered # {}
        /\ last.reply \in {"order_accepted", "order_accepted_not_notified"}

\* the first notification failed and a later one arrived
C17_Witness ==
    /\ OrderCreated
    /\ Len(last.attempted) > 1
    /\ last.attempted[1] \notin last.delivered
    /\ last.delivered # {}
    /\ last.reply = "order_accepted"

\* C18: an order in the store stays there with the same product name,
\* price, payment method and status, whatever is done to the catalog.
C18_OrdersNeverChange ==
    [][\A o \in DOMAIN storage_db.orders :
           /\ o \in DOMAIN storage_db'.orders
           /\ storage_db'.orders[o] = storage_db.orders[o]]_vars

\* the product of an order was deleted, alone or with its category or city
C18_Witness ==
    /\ last.op \in DeleteOps
    /\ last.ok
    /\ \E o \in DOMAIN orders :
           /\ orders[o].product_id \in DOMAIN pre.products
           /\ orders[o].product_id \notin DOMAIN products

-----------------------------------------------------------------------------
(* Properties of the bulk product add *)

\* the names stored in the sender's draft before the step
DraftNames == get(fsm[last'.user].data, "product_names", << >>)

\* the step handles a description list or a price list whose count is not
\* the count of the names in the draft
CountMismatch ==
    /\ last'.op \in {"admin_add_multiple_products_descriptions",
                     "admin_add_multiple_products_prices"}
    /\ Len(StripParts(last'.input)) # Len(DraftNames)

\* C19: in the bulk add a description list, and likewise a price list,
\* whose count differs from the count of the names creates no product,
\* leaves the sender in the same state and leaves the names of the draft
\* as they were.
C19_CountMismatchRejected ==
    [][CountMismatch =>
          /\ storage_db'.products = storage_db.products
          /\ fsm'[last'.user].state = fsm[last'.user].state
          /\ get(fsm'[last'.user].data, "product_names", << >>) = DraftNames]_vars

\* a list of the wrong count was answered at the description prompt
C19_Witness ==
    /\ last.op = "admin_add_multiple_products_descriptions"
    /\ last.input # << >>
    /\ Len(StripParts(last.input))
           # Len(get(DataOf(last.user), "product_names", << >>))
    /\ StateOf(last.user) = "waiting_for_multiple_products_descriptions"

\* the step is the commit of a bulk add: a photo, a message without text
\* or the text that skips the photo, at the photo prompt
BulkCommit ==
    /\ last'.op = "admin_add_multiple_products_finish"
    /\ last'.input \in {<< >>, << "net" >>}

\* C20: the commit of a bulk add with n names, descriptions and prices
\* creates exactly n products; the i-th has the i-th name, description and
\* price, the ids grow in input order, and all carry the chosen category
\* or city and the same photo.  The code breaks it on the first run: the
\* product counter starts at 1 next to the seeded products 1 and 2 (C7),
\* so the commit replaces them and the store has no product more than
\* before.
C20_BulkCommitCreatesProducts ==
    [][BulkCommit =>
          LET data == fsm[last'.user].data
              n == Len(DraftNames)
              first == storage_db.next_product_id
              by_city == get(data, "multiple_type", "category") = "city"
          IN  /\ DOMAIN storage_db'.products \ DOMAIN storage_db.products
                     = first..(first + n - 1)
              /\ \A p \in DOMAIN storage_db.products :
                     storage_db'.products[p] = storage_db.products[p]
              /\ \A i \in 1..n :
                     LET product == storage_db'.products[first + i - 1]
                     IN  /\ product.name = data["product_names"][i]
                         /\ product.description = data["product_descriptions"][i]
                         /\ product.price = data["product_prices"][i]
                         /\ product.category_id =
                                IF by_city THEN None
                                ELSE get(data, "multiple_category_id", None)
                         /\ product.city_id =
                                IF by_city THEN get(data, "multiple_city_id", None)
                                ELSE None
                         /\ product.photo_url
                                = storage_db'.products[first].photo_url]_vars

-----------------------------------------------------------------------------
(* Properties of the price prompts *)

PriceOps ==
    {"admin_add_product_price", "admin_add_product_to_city_price",
     "admin_add_multiple_products_prices"}

FinishOps ==
    {"admin_add_product_finish", "admin_add_product_to_city_finish",
     "admin_add_multiple_products_finish"}

\* the text reads as a number greater than 0
PositiveNumber(text) ==
    LET price == float(text)
    IN  price.ok /\ price.value # NaN /\ price.value > 0

\* the step handles a price input of which some part is not a number
\* greater than 0
InvalidPriceInput ==
    /\ last'.op \in PriceOps
    /\ \E i \in 1..Len(last'.input) :
           /\ strip(last'.input[i]) # ""
           /\ ~PositiveNumber(strip(last'.input[i]))

\* C21: at the price prompts of the single, the direct-to-city and the
\* bulk product add an input that is not a number greater than 0 is
\* answered with a re-prompt and leaves the sender's state, the draft and
\* the store as they were; and every product one of these workflows writes
\* has a price greater than 0.  The code breaks it: float("nan") is a
\* float, `price <= 0` is False for it, so the price is accepted and the
\* product is stored with it.
C21_PriceMustBePositive ==
    [][/\ InvalidPriceInput =>
              /\ last'.reply \in {"invalid_price", "price_not_positive",
                                  "count_mismatch"}
              /\ fsm'[last'.user] = fsm[last'.user]
              /\ storage_db' = storage_db
       /\ last'.op \in FinishOps =>
              \A p \in DOMAIN storage_db'.products :
                  (p \notin DOMAIN storage_db.products
                       \/ storage_db'.products[p] # storage_db.products[p])
                  => /\ storage_db'.products[p].price # NaN
                     /\ storage_db'.products[p].price > 0]_vars

-----------------------------------------------------------------------------
(* Properties of the conversation state *)

\* the step is an admin's press of the back button of a prompt while a
\* workflow of theirs awaits input
BackPressedInWorkflow ==
    /\ last'.op = "admin_back"
    /\ last'.user \in admin_manager
    /\ fsm[last'.user].state # "idle"

\* C22: the back button pressed while a workflow awaits input clears the
\* sender's conversation state at once, so the conversation is idle
\* afterwards, and writes nothing of the draft to the store.  The code
\* breaks it: admin_back takes no FSM context and only edits the message
\* into the admin panel, so the awaiting state and the draft stay.
C22_BackClearsState ==
    [][BackPressedInWorkflow =>
          /\ fsm'[last'.user] = [state |-> "idle", data |-> EmptyDict]
          /\ storage_db' = storage_db]_vars

\* the step is the final step of a product add and it wrote its products
FinalStepCommitted ==
    /\ last'.op \in FinishOps
    /\ storage_db'.next_product_id > storage_db.next_product_id

\* C23: a workflow that completes its final step leaves the sender's
\* conversation idle with an empty context.  The code breaks it in the
\* bulk add to a city: when the city was deleted since it was chosen, the
\* final step adds the products, then reads city.order of None and raises
\* before state.clear().
C23_CompletedWorkflowIsIdle ==
    [][FinalStepCommitted =>
          fsm'[last'.user] = [state |-> "idle", data |-> EmptyDict]]_vars

\* the step handles, for an admin, a text that is no integer at one of the
\* prompts for an admin id
NonNumericAdminId ==
    /\ last'.op \in {"admin_add_admin_finish", "admin_remove_admin_finish"}
    /\ last'.user \in admin_manager
    /\ last'.input # << >>
    /\ ~int(last'.input[1]).ok

\* C24: an input that fails validation at a prompt re-prompts the same
\* state: the sender's state and draft are the same after the step as
\* before it and nothing is written.  The code breaks it at the prompts
\* for an admin id: after answering a non-numeric id both handlers go on
\* to the state.clear() that ends them, so the conversation is idle.
C24_InvalidInputKeepsState ==
    [][NonNumericAdminId =>
          /\ fsm'[last'.user] = fsm[last'.user]
          /\ storage_db' = storage_db
          /\ files' = files
          /\ admin_manager' = admin_manager]_vars

-----------------------------------------------------------------------------
(* Properties of the broadcast (checked under SpecBroadcast) *)

\* a confirmed broadcast ran to its report
BroadcastRan == last.op = "confirm_broadcast" /\ last.reply = "report"

\* C25: whichever outbound calls fail during a confirmed broadcast, one
\* send is attempted per registered user, in the order of the list, and
\* the report counts the sends that succeeded as successes, the sends that
\* failed as failures, and the two add up to the number of recipients.
\* The code breaks it: the edit of the progress message after every tenth
\* send sits in the same try as the send, so when that edit fails the
\* recipient is counted as a success and as a failure.
C25_BroadcastReportCounts ==
    BroadcastRan =>
        /\ last.attempted = storage_db.users
        /\ last.report.success = Cardinality(last.delivered)
        /\ last.report.failed = Len(last.attempted) - Cardinality(last.delivered)
        /\ last.report.success + last.report.failed = Len(storage_db.users)

-----------------------------------------------------------------------------
(* Properties of the admin check (checked under SpecButtons) *)

\* the handlers of the admin panel's buttons
AdminButtonOps ==
    {"admin_add_city_start", "admin_delete_city_finish", "admin_add_category_city",
     "admin_delete_category_finish", "admin_delete_product_finish",
     "admin_add_product_category", "admin_add_product_to_city_city",
     "admin_add_multiple_products_category", "admin_add_multiple_products_city",
     "admin_city_order", "admin_add_admin_start", "admin_remove_admin_start",
     "admin_broadcast_start", "confirm_broadcast", "cancel_broadcast",
     "admin_back"}

\* the step is a press of an admin button by a user who is no admin
PressedByNonAdmin ==
    /\ last'.op \in AdminButtonOps
    /\ last'.user \notin admin_manager

\* C26: a user who is no admin and presses a button of the admin panel
\* gets no response, and the store, its files, the set of admins and that
\* user's conversation state and context stay as they were.
C26_NonAdminPressIgnored ==
    [][PressedByNonAdmin =>
          /\ last'.reply = "none"
          /\ storage_db' = storage_db
          /\ files' = files
          /\ admin_manager' = admin_manager
          /\ fsm' = fsm]_vars

\* a user who is no admin and awaits a proof of payment pressed the
\* confirmation of a city delete for a city of the store
C26_Witness ==
    /\ last.op = "admin_delete_city_finish"
    /\ last.user \notin admin_manager
    /\ last.arg \in DOMAIN storage_db.cities
    /\ StateOf(last.user) = "waiting_for_payment_proof"

-----------------------------------------------------------------------------
(* Properties of the restart (checked under SpecStore) *)

\* the step restarts the process right after a store mutation returned
RestartAfterMutation ==
    /\ last'.op = "restart"
    /\ last.op \in AddOps \cup DeleteOps

\* C27: when the process stops right after a store mutation returned and
\* starts again, the cities, categories, products and orders it loads are
\* the ones the store held when the mutation returned.  The code breaks
\* it after the delete of the last city: DataStorage.__init__ finds no
\* city and calls create_test_data, which puts the seed cities, categories
\* and products back.
C27_RestartKeepsMutations ==
    [][RestartAfterMutation =>
          /\ storage_db'.cities = storage_db.cities
          /\ storage_db'.categories = storage_db.categories
          /\ storage_db'.products = storage_db.products
          /\ storage_db'.orders = storage_db.orders]_vars

-----------------------------------------------------------------------------
(* Properties of a failed write (checked under SpecDisk) *)

\* the step added a city in memory and the write of the cities file failed
CityWriteFailed ==
    /\ last'.op = "admin_add_city_finish"
    /\ storage_db'.cities # storage_db.cities
    /\ files'.cities = files.cities
    /\ files'.cities # storage_db'.cities

\* C28: when the write of a collection fails during a step of a workflow,
\* the failure does not leave the handler and the sender is told that the
\* operation failed, not that it succeeded.  The code breaks the second
\* half: save_data prints the exception and returns nothing, add_city
\* returns the new id all the same, and the handler answers that the city
\* was added.
C28_WriteFailureReported ==
    [][CityWriteFailed =>
          /\ last'.ok
          /\ last'.reply # "added"]_vars

-----------------------------------------------------------------------------
(* Properties of the /admin command (checked under SpecCommand) *)

\* C29: whenever an admin sends /admin, whatever state their conversation
\* is in, the awaiting of a payment proof included, the admin panel is
\* returned.  The code breaks it in waiting_for_payment_proof: the handler
\* of that state is registered before cmd_admin and takes the message as
\* a proof that is neither photo nor document.
C29_AdminCommandAlwaysAnswered ==
    (last.input = << "/admin" >> /\ last.user \in pre_admins)
        => last.reply = "admin_panel"

-----------------------------------------------------------------------------
(* Properties of the product's place (checked under SpecPlace) *)

\* C30: in every state the workflows reach from an empty or a freshly
\* seeded catalog no product has both a category id and a city id.
C30_CategoryOrCityNotBoth ==
    \A p \in DOMAIN storage_db.products :
        ~(/\ storage_db.products[p].category_id # None
          /\ storage_db.products[p].city_id # None)

\* the direct add to a city has just stored a product of a city, next to
\* a product of a category
C30_Witness ==
    /\ last.op = "admin_add_product_to_city_finish"
    /\ last.ret \in DOMAIN storage_db.products
    /\ storage_db.products[last.ret].city_id # None
    /\ storage_db.products[last.ret].category_id = None
    /\ \E p \in DOMAIN storage_db.products :
           storage_db.products[p].category_id # None

-----------------------------------------------------------------------------
(* Properties of the handlers' failures (checked under SpecProduct) *)

\* C31: whatever the state and whatever the event, an event that names a
\* deleted entity included, the handler ends with a response or by
\* ignoring the event: no exception leaves it.  The code breaks it: a
\* photo at a price prompt makes float(None) raise TypeError past the
\* `except ValueError`, a photo at the prompt for the names of a bulk add
\* makes None.split raise, and the bulk add to a deleted city raises on
\* city.order.
C31_NoFailureEscapes == last.reply # "exception"

-----------------------------------------------------------------------------
(* Properties of the checkout sequence (checked under SpecPurchase) *)

\* C32: an order for a product is created only if the buyer selected that
\* product, then chose a payment method while it was the selected product,
\* then sent the proof; selecting another product after the payment method
\* was chosen gives no order without a new choice of the payment method.
\* The code breaks it: show_product_detail is a callback handler without a
\* state filter, it replaces selected_product_id and leaves the state
\* waiting_for_payment_proof, and select_payment_method asks for no
\* selected product.
C32_OrderFollowsCheckout ==
    OrderCreated =>
        /\ last.ret \in DOMAIN storage_db.orders
        /\ storage_db.orders[last.ret].product_id = checkout[last.user].product

-----------------------------------------------------------------------------
(* Properties of the photo prompts (checked under SpecProduct) *)

\* the step handles, at a photo prompt, a text other than the one that
\* skips the photo
OtherTextAtPhotoPrompt ==
    /\ last'.op \in FinishOps
    /\ last'.input # << >>
    /\ last'.input # << "net" >>

\* C33: at the photo prompts of the single, the direct-to-city and the
\* bulk product add a product is committed only for a photo or for the
\* text that skips the photo; any other message re-prompts, leaves state
\* and context as they were and commits nothing.  The code breaks it for
\* a document: it is no photo and has no text, so neither branch of the
\* check applies and the product is committed without a photo.
C33_PhotoOrNoCommits ==
    [][/\ FinalStepCommitted =>
              \/ last'.input = << "net" >>
              \/ storage_db'.products[storage_db.next_product_id].photo_url # None
       /\ OtherTextAtPhotoPrompt =>
              /\ fsm'[last'.user] = fsm[last'.user]
              /\ storage_db' = storage_db]_vars


-----------------------------------------------------------------------------
(* Cascades and interleaved handlers (checked under SpecCascade) *)

\* C34: handlers of different conversations interleave at awaits only, and
\* a cascade has none: the step that removes a city also removes every
\* category of the city and every product of those categories, and the
\* step that removes a category also removes every product of it, so no
\* state between two handlers holds a half-applied cascade
C34_CascadeInOneStep ==
    [][/\ \A city_id \in DOMAIN storage_db.cities \ DOMAIN storage_db'.cities :
              \A cat_id \in CategoriesOf(storage_db, city_id) :
                  /\ cat_id \notin DOMAIN storage_db'.categories
                  /\ ProductsUnder(storage_db, {cat_id})
                         \cap DOMAIN storage_db'.products = {}
       /\ \A cat_id \in DOMAIN storage_db.categories
                            \ DOMAIN storage_db'.categories :
              ProductsUnder(storage_db, {cat_id})
                  \cap DOMAIN storage_db'.products = {}]_vars

\* a buyer's handler ran while the handler that deleted a city with
\* categories and products is still suspended at its reply
C34_Witness ==
    \E t \in TaskIds :
        /\ tasks[t].op = "admin_delete_city_finish"
        /\ tasks[t].pc = "reply"
        /\ tasks[t].arg \notin DOMAIN storage_db.cities
        /\ last.op = "show_product_detail"
        /\ last.user # tasks[t].user
        /\ last.reply = "not_found"


-----------------------------------------------------------------------------
(* The broadcast step by step (checked under SpecDispatchFair, SpecDispatch) *)

BroadcastConfirmed(t) ==
    /\ tasks[t].op = "confirm_broadcast"
    /\ tasks[t].pc = "start_edit"

\* the report was shown, the admin is idle, and every user registered at
\* the confirmation was tried
BroadcastFinished(t) ==
    /\ tasks[t].pc = "done"
    /\ last.reply = "report"
    /\ fsm[tasks[t].user] = IdleFsm[tasks[t].user]
    /\ \A k \in 1..tasks[t].registered :
           \E j \in 1..Len(tasks[t].sent) : tasks[t].sent[j] = storage_db.users[k]

\* C35: with every await of the handler eventually returning or raising, a
\* confirmed broadcast leads to its end: every user registered was tried,
\* the final report was emitted and the admin's conversation is idle
C35_BroadcastFinishes ==
    \A t \in TaskIds : BroadcastConfirmed(t) ~> BroadcastFinished(t)


\* C39: a broadcast message entered once reaches each user at most once,
\* also when confirm is pressed again while the first loop is suspended:
\* no two sends that reached a user carry the same entry to the same user
C39_EntrySentOncePerUser ==
    \A j, k \in 1..Len(outbox.log) :
        j # k => outbox.log[j] # outbox.log[k]


-----------------------------------------------------------------------------
(* The set of admins over whole runs (checked under SpecAdmin) *)

\* C36: started with a configured owner, the set of admins is never empty:
\* add_admin and remove_admin, called by anybody in any order, directly or
\* through the admin prompts, and restarts never remove the last admin
C36_AdminSetNeverEmpty ==
    YOUR_TELEGRAM_ID # 0 => admin_manager # {}

\* an admin removed another one and is now the only admin left
C36_Witness ==
    /\ last.op \in {"remove_admin", "admin_remove_admin_finish"}
    /\ admin_manager # pre_admins
    /\ Cardinality(admin_manager) = 1


-----------------------------------------------------------------------------
(* The status of orders (checked under SpecPurchase) *)

\* `[o for o in orders.values() if o.status == "pending"]` of admin_stats,
\* and the same for "confirmed"
pending_orders == {o \in DOMAIN orders : orders[o].status = "pending"}
confirmed_orders == {o \in DOMAIN orders : orders[o].status = "confirmed"}

\* C37: every order in the store is pending, in every reachable state: no
\* operation moves an order to confirmed, so the statistics count no
\* confirmed order
C37_EveryOrderPending ==
    /\ pending_orders = DOMAIN orders
    /\ confirmed_orders = {}

\* a proof of payment created an order next to one loaded at startup
C37_Witness ==
    /\ OrderCreated
    /\ DOMAIN pre.orders # {}
    /\ Cardinality(DOMAIN orders) = Cardinality(DOMAIN pre.orders) + 1


-----------------------------------------------------------------------------
(* Orders per checkout (checked under SpecCheckout) *)

\* C38: one selection of a payment method leads to at most one order, also
\* when a second proof is handled while the handler of the first is
\* suspended on notifying the admins
C38_OneOrderPerCheckout ==
    \A u \in Users : checkout[u].orders <= 1


-----------------------------------------------------------------------------
(* Messages of a removed admin (checked under SpecRevoke) *)

WorkflowMessageOps ==
    {"admin_add_product_name", "admin_add_product_description",
     "admin_add_product_price", "admin_add_product_finish",
     "admin_add_multiple_products_names",
     "admin_add_multiple_products_descriptions",
     "admin_add_multiple_products_prices",
     "admin_add_multiple_products_finish", "admin_add_admin_finish"}

\* the step handles a workflow message of a user who is no admin any more
MessageAfterRemoval ==
    /\ last'.op \in WorkflowMessageOps
    /\ last'.user \notin admin_manager

\* C40: the next workflow message of a user removed from the admins in the
\* middle of the workflow changes neither the store, the files nor the
\* admins, is not answered, and leaves the user idle with an empty context
C40_RemovedAdminMessageDropped ==
    [][MessageAfterRemoval =>
           /\ storage_db' = storage_db
           /\ files' = files
           /\ admin_manager' = admin_manager
           /\ last'.reply = "none"
           /\ fsm'[last'.user] = IdleFsm[last'.user]]_vars

\* the owner, removed by an admin they added, sent the photo that would
\* have committed their product
C40_Witness ==
    /\ last.op \in {"admin_add_product_finish",
                    "admin_add_multiple_products_finish"}
    /\ last.user = YOUR_TELEGRAM_ID
    /\ last.user \notin admin_manager
    /\ admin_manager # {}
    /\ last.reply = "none"

====
